---------------------------- MODULE Spec2Model ----------------------------
(***************************************************************************)
(* A model of the page migrator: style application, widget extraction,     *)
(* component extraction, reconstruction and the fragment store they share. *)
(*                                                                         *)
(* Strings are sequences of lexemes ("atoms").  A placeholder token is one *)
(* atom: two tokens never overlap in the program's strings, because every  *)
(* token starts with two opening braces, ends with two closing braces and  *)
(* holds no brace in between.  An element's opening tag is one atom unless *)
(* it carries the marker attribute wig-id: then it is the atom that ends   *)
(* with wig-id=", the token atom, and the atom that closes the attribute   *)
(* and the tag.  The replacement patterns of String.prototype.replace      *)
(* ($$, $&, $`, $') are text atoms of their own.                           *)
(***************************************************************************)
EXTENDS Integers, Sequences, FiniteSets, TLC

VARIABLES
    \* the fragment store (src/unnamed/part_004), one sequence per table,
    \* in insertion (id) order
    components,            \* rows of table components
    placeholder_html,      \* rows of table placeholder_html
    widgets,               \* rows of table widgets
    optimized_components,  \* rows of table optimized_components
    reconstructed_html,    \* rows of table reconstructed_html
    \* ReconstructionService.reconstructHtml
    rpc,                   \* position of the call
    reconstructedHtml,     \* its local string
    rComps,                \* optimized components still to apply
    rWidgets,              \* widgets still to apply
    componentsReplaced,
    widgetsReplaced,
    rResult,               \* the value returned
    \* WidgetExtractionService.extractWidgets
    wpc,
    wDoc,                  \* the parsed input document (children of body)
    wResult,
    wQueue,                \* entries of the widgets map still to save
    \* ComponentExtractionService.extractComponents
    cpc,
    cInput,                \* the parsed input document, as given
    cDom,                  \* the cheerio document being mutated
    cIdx,                  \* loop index of the running phase
    sectionElements,       \* $('section').toArray(), as paths into cSnap
    cSnap,                 \* the document as it was when Phase 2 started
    processedSections,
    placeholderCounter,
    extractedComponents,
    cLog,                  \* which element each extracted component came from
    cResult,
    \* HtmlStyleProcessorService.processHtml
    ppc,
    pHtml,                 \* the parsed raw document
    pJson,                 \* the style document
    pResult,
    \* HtmlToJsonService.convertToJson (src/unnamed/part_001)
    html_json,             \* rows of table html_json
    jpc,
    nodeCount,             \* the service's node counter
    json,                  \* the converted tree
    jResult,
    \* AIService.optimizeAllComponents (src/unnamed/part_002)
    apc,
    aComponents,           \* the components still to optimize
    aResults,              \* the results list so far
    aLog,                  \* the components attempted so far, and how each ended
    aResult,
    \* the controller's pipeline requests (src/controllers/mainController.ts)
    gcsFiles,              \* the documents gcsService.fetchFiles will return
    \* concurrent convertToJson calls on the one HtmlToJsonService object,
    \* each a function of the caller
    kpc,
    kData,                 \* reconstructedData, as fetched
    kJson,                 \* the converted tree
    kArgs,                 \* the arguments handed to saveHtmlJson
    kResult

storeVars == <<components, placeholder_html, widgets, optimized_components,
               reconstructed_html>>
reconVars == <<rpc, reconstructedHtml, rComps, rWidgets, componentsReplaced,
               widgetsReplaced, rResult>>
widgetVars == <<wpc, wDoc, wResult, wQueue>>
compVars == <<cpc, cInput, cDom, cIdx, sectionElements, cSnap, processedSections,
              placeholderCounter, extractedComponents, cLog, cResult>>
styleVars == <<ppc, pHtml, pJson, pResult>>
jsonVars == <<html_json, jpc, nodeCount, json, jResult>>
aiVars == <<apc, aComponents, aResults, aLog, aResult>>
pipeVars == <<gcsFiles>>
callVars == <<kpc, kData, kJson, kArgs, kResult>>
vars == <<storeVars, reconVars, widgetVars, compVars, styleVars, jsonVars, aiVars,
          pipeVars, callVars>>

NoResult == [kind |-> "none"]

-----------------------------------------------------------------------------
(* Strings.                                                                *)

Atom(k, t, i, n) == [k |-> k, t |-> t, i |-> i, n |-> n]
Txt(t) == Atom("text", t, "", <<>>)
Open(tag, id) == Atom("open", tag, id, <<>>)
Close(tag) == Atom("close", tag, "", <<>>)
MOpen(tag, id) == Atom("mopen", tag, id, <<>>)
MEnd == Atom("mend", "", "", <<>>)

RECURSIVE Digits(_)
\* String(n): the decimal digits of n, most significant first
Digits(n) == IF n < 10 THEN <<n>> ELSE Digits(n \div 10) \o <<n % 10>>

RECURSIVE PadStart(_, _, _)
\* String.prototype.padStart(width, fill): never truncates
PadStart(ds, width, fill) ==
    IF Len(ds) >= width THEN ds ELSE PadStart(<<fill>> \o ds, width, fill)

PadWidth == 3

\* `wigoh-id-${String(counter).padStart(3, '0')}`, as its digits
PlaceholderId(counter) == PadStart(Digits(counter), PadWidth, 0)

\* `{{${placeholderId}}}`
CTok(placeholderId) == Atom("ctok", "", "", placeholderId)

\* `{{widget-${widgetCounter}}}`
WidgetKey(widgetCounter) == Atom("wtok", "", "", Digits(widgetCounter))

Reverse(s) == [j \in 1..Len(s) |-> s[Len(s) + 1 - j]]

RECURSIVE Concat(_)
Concat(ss) == IF ss = <<>> THEN <<>> ELSE Head(ss) \o Concat(Tail(ss))

\* String.prototype.includes, for a one-atom needle
Includes(s, a) == \E j \in 1..Len(s) : s[j] = a

\* String.prototype.indexOf, 1-based, 0 when absent
IndexOf(s, a) ==
    IF Includes(s, a) THEN CHOOSE j \in 1..Len(s) :
                               s[j] = a /\ \A m \in 1..(j - 1) : s[m] # a
    ELSE 0

\* (s.match(regex) || []).length for the global regex of one token
Occurrences(s, a) == Cardinality({j \in 1..Len(s) : s[j] = a})

RECURSIVE GetSubstitution(_, _, _, _)
\* The replacement text of String.prototype.replace: $$ gives a dollar sign,
\* $& the matched text, $` the text before the match, $' the text after it.
GetSubstitution(matched, str, position, replacement) ==
    IF replacement = <<>> THEN <<>>
    ELSE LET a == Head(replacement)
             rest == GetSubstitution(matched, str, position, Tail(replacement))
         IN  IF a.k = "text" /\ a.t = "$$" THEN <<Txt("$")>> \o rest
             ELSE IF a.k = "text" /\ a.t = "$&" THEN <<matched>> \o rest
             ELSE IF a.k = "text" /\ a.t = "$`"
                  THEN SubSeq(str, 1, position - 1) \o rest
             ELSE IF a.k = "text" /\ a.t = "$'"
                  THEN SubSeq(str, position + 1, Len(str)) \o rest
             ELSE <<a>> \o rest

\* str.replace(token, replacement) with a string pattern: the first
\* occurrence only
ReplaceFirst(str, token, replacement) ==
    LET p == IndexOf(str, token)
    IN  IF p = 0 THEN str
        ELSE SubSeq(str, 1, p - 1)
             \o GetSubstitution(token, str, p, replacement)
             \o SubSeq(str, p + 1, Len(str))

\* str.replace(regex, replacement) with the global regex of one token: every
\* occurrence in the original string; the inserted text is not searched again
ReplaceGlobal(str, token, replacement) ==
    Concat([j \in 1..Len(str) |->
              IF str[j] = token
              THEN GetSubstitution(token, str, j, replacement)
              ELSE <<str[j]>>])

\* html.match(/wig-id="(\{\{wigoh-id-\d+\}\})"/): the positions where the
\* attribute opens, a component token follows and the quote closes it
MarkerPositions(html) ==
    {j \in 1..Len(html) : /\ html[j].k = "mopen"
                          /\ j + 2 <= Len(html)
                          /\ html[j + 1].k = "ctok"
                          /\ html[j + 2].k = "mend"}

HasWigId(html) == MarkerPositions(html) # {}

ComponentTokenPositions(s) == {j \in 1..Len(s) : s[j].k = "ctok"}

\* wigIdMatch[1] of the first match
WigIdOf(html) ==
    LET p == CHOOSE j \in MarkerPositions(html) :
                 \A m \in MarkerPositions(html) : j <= m
    IN  html[p + 1]


-----------------------------------------------------------------------------
(* The fragment store: src/unnamed/part_004 (DatabaseService).  A table is *)
(* the sequence of its rows in insertion order; SERIAL ids and created_at  *)
(* both grow with insertion.                                               *)

\* INSERT INTO ... RETURNING id
Insert(table, row) == Append(table, row)

\* SELECT * FROM placeholder_html ORDER BY created_at DESC LIMIT 1
GetLatestPlaceholderHtml == placeholder_html[Len(placeholder_html)]

\* the rows as they were inserted, oldest first
GetOptimizedComponentsOldestFirst == optimized_components

\* SELECT ... FROM optimized_components ORDER BY created_at DESC
GetOptimizedComponents == Reverse(optimized_components)

\* SELECT widget_key, widget_html FROM widgets ORDER BY id ASC
GetAllWidgets == widgets

\* SELECT id, placeholder_id, html_content FROM components ORDER BY id ASC
GetAllComponents == components

-----------------------------------------------------------------------------
(* ReconstructionService.reconstructHtml                                   *)
(* src/services/reconstructionService.ts                                   *)

\* the counter is not advanced
ApplyComponentUncounted(html, replaced, component) ==
    IF component.optimized_html = <<>> \/ ~HasWigId(component.optimized_html)
    THEN [html |-> html, replaced |-> replaced]
    ELSE [html |-> ReplaceFirst(html, WigIdOf(component.optimized_html),
                                component.optimized_html),
          replaced |-> replaced]

\* the first component token of the string is replaced, whichever it is
ApplyComponentAnyToken(html, replaced, component) ==
    IF component.optimized_html = <<>> \/ ~HasWigId(component.optimized_html)
       \/ ComponentTokenPositions(html) = {}
    THEN [html |-> html, replaced |-> replaced]
    ELSE LET p == CHOOSE j \in ComponentTokenPositions(html) :
                     \A m \in ComponentTokenPositions(html) : j <= m
         IN  [html |-> ReplaceFirst(html, html[p], component.optimized_html),
              replaced |-> replaced + 1]

\* markup whose token the template does not hold is appended to the string
ApplyComponentAppendsMissing(html, replaced, component) ==
    IF component.optimized_html = <<>> \/ ~HasWigId(component.optimized_html)
    THEN [html |-> html, replaced |-> replaced]
    ELSE LET wigIdPlaceholder == WigIdOf(component.optimized_html)
         IN  IF Includes(html, wigIdPlaceholder)
             THEN [html |-> ReplaceFirst(html, wigIdPlaceholder,
                                         component.optimized_html),
                   replaced |-> replaced + 1]
             ELSE [html |-> html \o component.optimized_html,
                   replaced |-> replaced + 1]

\* lines 35-62: one iteration of the component loop on the local string
ApplyComponent(html, replaced, component) ==
    IF component.optimized_html = <<>> \/ ~HasWigId(component.optimized_html)
    THEN [html |-> html, replaced |-> replaced]
    ELSE LET wigIdPlaceholder == WigIdOf(component.optimized_html)
         IN  IF Includes(html, wigIdPlaceholder)
             THEN [html |-> ReplaceFirst(html, wigIdPlaceholder,
                                         component.optimized_html),
                   replaced |-> replaced + 1]
             ELSE [html |-> html, replaced |-> replaced]

\* lines 75-86: one iteration of the widget loop on the local string
ApplyWidget(html, replaced, widget) ==
    IF Includes(html, widget.widget_key)
    THEN [html |-> ReplaceGlobal(html, widget.widget_key, widget.widget_html),
          replaced |-> replaced + Occurrences(html, widget.widget_key)]
    ELSE [html |-> html, replaced |-> replaced]

\* no template is read as an empty template
ReconStartWithoutTemplate ==
    /\ rpc = "idle"
    /\ rpc' = "components"
    /\ reconstructedHtml' = IF placeholder_html = <<>> THEN <<>>
                            ELSE GetLatestPlaceholderHtml.html_content
    /\ rComps' = GetOptimizedComponents
    /\ componentsReplaced' = 0
    /\ UNCHANGED <<rResult, rWidgets, widgetsReplaced>>
    /\ UNCHANGED <<storeVars, widgetVars, compVars, styleVars, jsonVars, aiVars>>
    /\ UNCHANGED <<pipeVars, callVars>>

\* lines 17-33: the template is loaded, or the call throws
ReconStart ==
    /\ rpc = "idle"
    /\ IF placeholder_html = <<>>
       THEN /\ rpc' = "failed"
            /\ rResult' = [kind |-> "error",
                           message |-> "No placeholder HTML found in database"]
            /\ UNCHANGED <<reconstructedHtml, rComps, componentsReplaced>>
       ELSE /\ rpc' = "components"
            /\ reconstructedHtml' = GetLatestPlaceholderHtml.html_content
            /\ rComps' = GetOptimizedComponents
            /\ componentsReplaced' = 0
            /\ UNCHANGED rResult
    /\ UNCHANGED <<rWidgets, widgetsReplaced>>
    /\ UNCHANGED <<storeVars, widgetVars, compVars, styleVars, jsonVars, aiVars>>
    /\ UNCHANGED <<pipeVars, callVars>>

\* lines 35-62
ReconComponent ==
    /\ rpc = "components"
    /\ rComps # <<>>
    /\ LET r == ApplyComponent(reconstructedHtml, componentsReplaced, Head(rComps))
       IN  /\ reconstructedHtml' = r.html
           /\ componentsReplaced' = r.replaced
    /\ rComps' = Tail(rComps)
    /\ UNCHANGED <<rpc, rWidgets, widgetsReplaced, rResult>>
    /\ UNCHANGED <<storeVars, widgetVars, compVars, styleVars, jsonVars, aiVars>>
    /\ UNCHANGED <<pipeVars, callVars>>

\* the widgets are loaded while components are still to be applied
ReconLoadWidgetsEarly ==
    /\ rpc = "components"
    /\ rpc' = "widgets"
    /\ rWidgets' = GetAllWidgets
    /\ widgetsReplaced' = 0
    /\ UNCHANGED <<reconstructedHtml, rComps, componentsReplaced, rResult>>
    /\ UNCHANGED <<storeVars, widgetVars, compVars, styleVars, jsonVars, aiVars>>
    /\ UNCHANGED <<pipeVars, callVars>>

\* lines 66-73
ReconLoadWidgets ==
    /\ rpc = "components"
    /\ rComps = <<>>
    /\ rpc' = "widgets"
    /\ rWidgets' = GetAllWidgets
    /\ widgetsReplaced' = 0
    /\ UNCHANGED <<reconstructedHtml, rComps, componentsReplaced, rResult>>
    /\ UNCHANGED <<storeVars, widgetVars, compVars, styleVars, jsonVars, aiVars>>
    /\ UNCHANGED <<pipeVars, callVars>>

\* lines 75-86
ReconWidget ==
    /\ rpc = "widgets"
    /\ rWidgets # <<>>
    /\ LET r == ApplyWidget(reconstructedHtml, widgetsReplaced, Head(rWidgets))
       IN  /\ reconstructedHtml' = r.html
           /\ widgetsReplaced' = r.replaced
    /\ rWidgets' = Tail(rWidgets)
    /\ UNCHANGED <<rpc, rComps, componentsReplaced, rResult>>
    /\ UNCHANGED <<storeVars, widgetVars, compVars, styleVars, jsonVars, aiVars>>
    /\ UNCHANGED <<pipeVars, callVars>>

\* lines 90-109
ReconSave ==
    /\ rpc = "widgets"
    /\ rWidgets = <<>>
    /\ rpc' = "done"
    /\ reconstructed_html' =
           Insert(reconstructed_html,
                  [html_content |-> reconstructedHtml,
                   total_components |-> componentsReplaced,
                   total_widgets |-> widgetsReplaced])
    /\ rResult' = [kind |-> "ok",
                   reconstructedHtml |-> reconstructedHtml,
                   totalComponents |-> componentsReplaced,
                   totalWidgets |-> widgetsReplaced]
    /\ UNCHANGED <<reconstructedHtml, rComps, rWidgets, componentsReplaced,
                   widgetsReplaced>>
    /\ UNCHANGED <<components, placeholder_html, widgets, optimized_components>>
    /\ UNCHANGED <<widgetVars, compVars, styleVars, jsonVars, aiVars>>
    /\ UNCHANGED <<pipeVars, callVars>>

-----------------------------------------------------------------------------
(* Bounded inputs.                                                         *)

SeqsUpTo(S, n) == UNION {[1..m -> S] : m \in 0..n}

MaxTemplateLen == 3
MaxComponentRows == 2
MaxWidgetRows == 1

T1 == CTok(PlaceholderId(1))
T2 == CTok(PlaceholderId(2))
W1 == WidgetKey(1)
W2 == WidgetKey(2)

\* <section wig-id="{{token}}">body</section>
Marked(tag, token, body) == <<MOpen(tag, ""), token, MEnd>> \o body \o <<Close(tag)>>

BoldHi == <<Open("b", ""), Txt("Hi"), Close("b")>>

\* <span>$$</span>: a price tier, as outerHTML gives it
DollarSpan == <<Open("span", ""), Txt("$$"), Close("span")>>

\* the scenario of the README's "Reconstruction Process"
ReadmeTemplate == <<Open("div", ""), T1, Close("div")>>
ReadmeComponent == Marked("section", T1, <<W1>>)
ReadmeWidget == [widget_key |-> W1, widget_html |-> BoldHi]

Templates == SeqsUpTo({T1, T2, W1}, MaxTemplateLen) \cup {ReadmeTemplate}

\* what the shrink service may have stored: markup that kept its marker,
\* markup that lost it, and empty markup
\* a section captured after a named target inside it had been replaced by
\* its token: <section wig-id="{{wigoh-id-002}}">{{wigoh-id-001}}</section>
SectionAroundTarget == Marked("section", T2, <<T1>>)

OptimizedHtmls ==
    {Marked("section", t, <<W1>>) : t \in {T1, T2}}
    \cup {Marked("section", T1, <<Txt("$'")>>), SectionAroundTarget,
          <<Txt("X")>>, <<>>}

WidgetRows ==
    {[widget_key |-> W1, widget_html |-> BoldHi],
     [widget_key |-> W1, widget_html |-> DollarSpan],
     [widget_key |-> W2, widget_html |-> BoldHi]}

OptimizedRows(hs) ==
    [j \in 1..Len(hs) |-> [id |-> j, component_id |-> j, optimized_html |-> hs[j]]]

WidgetIdle == /\ wpc = "idle" /\ wDoc = <<>> /\ wResult = NoResult /\ wQueue = <<>>

CompIdle ==
    /\ cpc = "idle" /\ cInput = <<>> /\ cDom = <<>> /\ cIdx = 0
    /\ sectionElements = <<>> /\ cSnap = <<>> /\ processedSections = {}
    /\ placeholderCounter = 0 /\ extractedComponents = <<>> /\ cLog = <<>>
    /\ cResult = NoResult

StyleIdle == /\ ppc = "idle" /\ pHtml = <<>> /\ pJson = <<>> /\ pResult = NoResult

JsonIdle ==
    /\ html_json = <<>> /\ jpc = "idle" /\ nodeCount = 0
    /\ json = [kind |-> "string", text |-> <<>>] /\ jResult = NoResult

AiIdle ==
    /\ apc = "idle" /\ aComponents = <<>> /\ aResults = <<>> /\ aLog = <<>>
    /\ aResult = NoResult

PipeIdle == gcsFiles = <<>>

Callers == {1, 2}

CallsIdle ==
    /\ kpc = [c \in Callers |-> "idle"]
    /\ kData = [c \in Callers |-> <<>>]
    /\ kJson = [c \in Callers |-> [kind |-> "string", text |-> <<>>]]
    /\ kArgs = [c \in Callers |-> 0]
    /\ kResult = [c \in Callers |-> NoResult]

ReconIdle ==
    /\ rpc = "idle" /\ reconstructedHtml = <<>> /\ rComps = <<>> /\ rWidgets = <<>>
    /\ componentsReplaced = 0 /\ widgetsReplaced = 0 /\ rResult = NoResult

\* Reconstruction against a store that earlier runs have filled
InitRecon ==
    /\ components = <<>>
    /\ placeholder_html \in
          {<<>>} \cup {<<[html_content |-> t, total_placeholders |-> 0]>> :
                          t \in Templates}
    /\ optimized_components \in
          {OptimizedRows(hs) : hs \in SeqsUpTo(OptimizedHtmls, MaxComponentRows)}
    /\ widgets \in SeqsUpTo(WidgetRows, MaxWidgetRows)
    /\ reconstructed_html = <<>>
    /\ ReconIdle /\ WidgetIdle /\ CompIdle /\ StyleIdle /\ JsonIdle /\ AiIdle
    /\ PipeIdle /\ CallsIdle

NextRecon ==
    \/ ReconStart
    \/ ReconComponent
    \/ ReconLoadWidgets
    \/ ReconWidget
    \/ ReconSave

SpecRecon == InitRecon /\ [][NextRecon]_vars

-----------------------------------------------------------------------------
(* Claims about reconstruction.                                            *)

StoredTemplate == placeholder_html[Len(placeholder_html)].html_content

\* the component tokens of a string
ComponentTokens(s) == {s[j] : j \in {m \in 1..Len(s) : s[m].k = "ctok"}}

\* the stored shrunk components that carry a marker token
MarkedRows ==
    {j \in 1..Len(optimized_components) :
        HasWigId(optimized_components[j].optimized_html)}

\* S: the marker tokens of the stored shrunk components
StoredMarkerTokens ==
    {WigIdOf(optimized_components[j].optimized_html) : j \in MarkedRows}

\* the string holds wig-id="token"
HoldsMarker(s, token) ==
    \E j \in MarkerPositions(s) : s[j + 1] = token

RECURSIVE AfterComponents(_, _)
\* the local string once the listed components have been applied in turn
AfterComponents(html, comps) ==
    IF comps = <<>> THEN html
    ELSE AfterComponents(ApplyComponent(html, 0, Head(comps)).html, Tail(comps))

\* every occurrence of the token replaced by the fragment, taken literally
Substituted(s, token, fragment) ==
    Concat([j \in 1..Len(s) |-> IF s[j] = token THEN fragment ELSE <<s[j]>>])

ReadmeScenario ==
    /\ placeholder_html = <<[html_content |-> ReadmeTemplate, total_placeholders |-> 0]>>
    /\ optimized_components = OptimizedRows(<<ReadmeComponent>>)
    /\ widgets = <<ReadmeWidget>>

ReadmeOutput ==
    <<Open("div", ""), MOpen("section", ""), T1, MEnd,
      Open("b", ""), Txt("Hi"), Close("b"), Close("section"), Close("div")>>

\* C1: reconstruct on the template <div>{{wigoh-id-001}}</div>, the one
\* component <section wig-id="{{wigoh-id-001}}">{{widget-1}}</section> and the
\* one widget {{widget-1}} -> <b>Hi</b> returns exactly
\* <div><section wig-id="{{wigoh-id-001}}"><b>Hi</b></section></div> with
\* totalComponents = 1 and totalWidgets = 1.
C1_ReadmeScenario ==
    (ReadmeScenario /\ rpc = "done") =>
        /\ rResult.kind = "ok"
        /\ rResult.reconstructedHtml = ReadmeOutput
        /\ rResult.totalComponents = 1
        /\ rResult.totalWidgets = 1

C1_Witness == ReadmeScenario /\ rpc = "done"

\* the hypothesis of C2: a template is stored and the marker tokens of the
\* stored components are tokens of the template
CoveredSubset ==
    /\ placeholder_html # <<>>
    /\ StoredMarkerTokens \subseteq ComponentTokens(StoredTemplate)

\* C2 as claimed: after reconstruct every token in S is absent from the output
\* and every template token not in S is still literally present in it.
C2_AsClaimed ==
    (rpc = "done" /\ CoveredSubset) =>
        \A t \in ComponentTokens(StoredTemplate) :
            IF t \in StoredMarkerTokens
            THEN ~Includes(rResult.reconstructedHtml, t)
            ELSE Includes(rResult.reconstructedHtml, t)

\* C2 as amended: after reconstruct every template token not in S is still
\* literally present; a token in S is not absent either: one placeholder per
\* stored component has been replaced by that component's markup
\* (totalComponents = number of stored components with a marker), and the
\* token still occurs in the output as the value of the inserted wig-id marker.
C2_TokensAfterReconstruct ==
    (rpc = "done" /\ CoveredSubset) =>
        /\ \A t \in ComponentTokens(StoredTemplate) \ StoredMarkerTokens :
               Includes(rResult.reconstructedHtml, t)
        /\ \A t \in StoredMarkerTokens :
               HoldsMarker(rResult.reconstructedHtml, t)
        /\ rResult.totalComponents = Cardinality(MarkedRows)

C2_Witness ==
    /\ rpc = "done" /\ CoveredSubset
    /\ StoredMarkerTokens = {T1}
    /\ ComponentTokens(StoredTemplate) = {T1, T2}
    /\ rResult.totalComponents = 1

\* the hypothesis of C3 for the stored widget row w: its token occurs inside
\* the markup of a component that was substituted and elsewhere in the template
NestedAndOutside(w) ==
    /\ placeholder_html # <<>>
    /\ Includes(StoredTemplate, w.widget_key)
    /\ \E j \in MarkedRows :
          LET h == optimized_components[j].optimized_html
          IN  /\ Includes(h, w.widget_key)
              /\ Includes(StoredTemplate, WigIdOf(h))

\* C3: if a stored widget has token w, and w occurs both inside the markup of
\* a substituted component and elsewhere in the template, then after
\* reconstruct no occurrence of w remains, every occurrence has been replaced
\* by the same widget fragment, and totalWidgets counts each replaced
\* occurrence.
C3_AsClaimed ==
    (rpc = "done" /\ Len(widgets) = 1 /\ NestedAndOutside(widgets[1])) =>
        LET w == widgets[1]
            before == AfterComponents(StoredTemplate, GetOptimizedComponents)
        IN  /\ ~Includes(rResult.reconstructedHtml, w.widget_key)
            /\ rResult.reconstructedHtml =
                   Substituted(before, w.widget_key, w.widget_html)
            /\ rResult.totalWidgets = Occurrences(before, w.widget_key)

\* the part of C3 that the code keeps: with a fragment free of replacement
\* patterns, the claim holds
C3_PatternFree ==
    (Len(widgets) = 1 /\ widgets[1].widget_html = BoldHi) => C3_AsClaimed

-----------------------------------------------------------------------------
(* Documents.  A parsed document is a forest of nodes; a text node holds   *)
(* one atom, an element holds its tag, its id attribute ("" when it has    *)
(* none), its wig-id attribute (<<>> when it has none) and its children.   *)

TextNode(a) == [tag |-> "#text", id |-> "", wig |-> <<>>, text |-> <<a>>, kids |-> <<>>]
El(tag, id, kids) == [tag |-> tag, id |-> id, wig |-> <<>>, text |-> <<>>, kids |-> kids]
IsText(node) == node.tag = "#text"

\* <!-- ... -->: a comment node holds the comment as one atom
Comment(t) == Atom("comment", t, "", <<>>)
CommentNode(t) ==
    [tag |-> "#comment", id |-> "", wig |-> <<>>, text |-> <<Comment(t)>>, kids |-> <<>>]
IsComment(node) == node.tag = "#comment"

\* the opening tag as the serializer writes it: the marker attribute, added
\* last, comes last
OpenTag(node) ==
    IF node.wig = <<>> THEN <<Open(node.tag, node.id)>>
    ELSE <<MOpen(node.tag, node.id)>> \o node.wig \o <<MEnd>>

RECURSIVE OuterHTML(_)
\* element.outerHTML, $.html(element)
OuterHTML(node) ==
    IF IsText(node) \/ IsComment(node) THEN node.text
    ELSE OpenTag(node)
         \o Concat([j \in 1..Len(node.kids) |-> OuterHTML(node.kids[j])])
         \o <<Close(node.tag)>>

\* element.innerHTML, $(element).html()
InnerHTML(kids) == Concat([j \in 1..Len(kids) |-> OuterHTML(kids[j])])

\* dom.serialize() of a document whose body holds the given children
Serialize(kids) ==
    <<Open("html", ""), Open("head", ""), Close("head"), Open("body", "")>>
    \o InnerHTML(kids) \o <<Close("body"), Close("html")>>

RECURSIVE Forests(_, _, _)
\* the forests of exactly n nodes over the given element labels and text
\* atoms; as the parser leaves them, no two text nodes are adjacent
Forests(n, labels, texts) ==
    IF n = 0 THEN {<<>>}
    ELSE LET trees(k) ==
                 (IF k = 1 THEN {TextNode(a) : a \in texts} ELSE {})
                 \cup {El(l.tag, l.id, f) :
                          l \in labels, f \in Forests(k - 1, labels, texts)}
             follow(t, k) ==
                 {g \in Forests(n - k, labels, texts) :
                     ~(IsText(t) /\ g # <<>> /\ IsText(g[1]))}
         IN  UNION {UNION {{<<t>> \o f : f \in follow(t, k)} : t \in trees(k)} :
                    k \in 1..n}

ForestsUpTo(n, labels, texts) == UNION {Forests(m, labels, texts) : m \in 0..n}

-----------------------------------------------------------------------------
(* WidgetExtractionService.extractWidgets                                  *)
(* src/services/htmlStyleProcessorService.ts, lines 250-334                *)

WIDGET_ELEMENTS ==
    {"h1", "h2", "h3", "h4", "h5", "h6", "p", "svg", "img", "image",
     "video", "span", "button", "a", "text", "wow-image", "wix-video",
     "wow-svg", "wow-icon", "wow-canvas", "main"}

WidgetCounterStartZero == 1 - 1

\* let widgetCounter = 1
WidgetCounterStart == 1

\* widgets[widgetKey] = html on a Record: a new key is appended, an old one
\* overwritten in place
RecordPut(map, key, html) ==
    IF \E j \in 1..Len(map) : map[j].widget_key = key
    THEN [j \in 1..Len(map) |->
             IF map[j].widget_key = key
             THEN [widget_key |-> key, widget_html |-> html] ELSE map[j]]
    ELSE Append(map, [widget_key |-> key, widget_html |-> html])

\* main is a widget everywhere
TakesElementMainAlways(tagName, insideSection) == tagName \in WIDGET_ELEMENTS

\* lines 285-292: the element is taken out as a widget
TakesElement(tagName, insideSection) ==
    /\ tagName \in WIDGET_ELEMENTS
    /\ ~(tagName = "main" /\ ~insideSection)

RECURSIVE ProcessElement(_, _, _)
RECURSIVE ProcessChildren(_, _, _)

\* the token is appended after the element, which stays in the tree
ProcessElementAppends(element, st, insideSection) ==
    IF IsText(element) THEN [st EXCEPT !.out = Append(@, element)]
    ELSE IF TakesElement(element.tag, insideSection)
    THEN LET widgetKey == WidgetKey(st.widgetCounter)
         IN  [out |-> st.out \o <<element, TextNode(widgetKey)>>,
              widgets |-> RecordPut(st.widgets, widgetKey, OuterHTML(element)),
              widgetCounter |-> st.widgetCounter + 1]
    ELSE LET sub == ProcessChildren(element.kids,
                                    [st EXCEPT !.out = <<>>],
                                    insideSection \/ element.tag = "section")
         IN  [sub EXCEPT !.out = Append(st.out, [element EXCEPT !.kids = sub.out])]

\* lines 281-306.  st is the traversal's state: the children rebuilt so far,
\* the widgets map and the counter.  insideSection is isInsideSection of the
\* element: the traversal never replaces an ancestor of an element it visits.
ProcessElement(element, st, insideSection) ==
    IF IsText(element) THEN [st EXCEPT !.out = Append(@, element)]
    ELSE IF TakesElement(element.tag, insideSection)
    THEN LET widgetKey == WidgetKey(st.widgetCounter)
         IN  [out |-> Append(st.out, TextNode(widgetKey)),
              widgets |-> RecordPut(st.widgets, widgetKey, OuterHTML(element)),
              widgetCounter |-> st.widgetCounter + 1]
    ELSE LET sub == ProcessChildren(element.kids,
                                    [st EXCEPT !.out = <<>>],
                                    insideSection \/ element.tag = "section")
         IN  [sub EXCEPT !.out = Append(st.out, [element EXCEPT !.kids = sub.out])]

\* children.forEach(child => processElement(child))
ProcessChildren(children, st, insideSection) ==
    IF children = <<>> THEN st
    ELSE ProcessChildren(Tail(children),
                         ProcessElement(Head(children), st, insideSection),
                         insideSection)

\* lines 265-314: the traversal from body's children and the serialization
Traverse(doc) ==
    LET st == ProcessChildren(doc, [out |-> <<>>, widgets |-> <<>>,
                                    widgetCounter |-> WidgetCounterStart], FALSE)
    IN  [widgets |-> st.widgets, modifiedHtml |-> Serialize(st.out)]

\* lines 265-316
WExtract ==
    /\ wpc = "ready"
    /\ LET r == Traverse(wDoc)
       IN  /\ wResult' = [kind |-> "pending", widgets |-> r.widgets,
                          modifiedHtml |-> r.modifiedHtml,
                          totalWidgets |-> Len(r.widgets)]
           /\ wQueue' = r.widgets
    /\ wpc' = "saving"
    /\ UNCHANGED <<wDoc, storeVars, reconVars, compVars, styleVars, jsonVars, aiVars>>
    /\ UNCHANGED <<pipeVars, callVars>>

\* lines 318-320: one databaseService.saveWidget
WSave ==
    /\ wpc = "saving"
    /\ wQueue # <<>>
    /\ widgets' = Insert(widgets, Head(wQueue))
    /\ wQueue' = Tail(wQueue)
    /\ UNCHANGED <<wpc, wDoc, wResult>>
    /\ UNCHANGED <<components, placeholder_html, optimized_components,
                   reconstructed_html>>
    /\ UNCHANGED <<reconVars, compVars, styleVars, jsonVars, aiVars>>
    /\ UNCHANGED <<pipeVars, callVars>>

\* lines 322-328
WReturn ==
    /\ wpc = "saving"
    /\ wQueue = <<>>
    /\ wpc' = "done"
    /\ wResult' = [wResult EXCEPT !.kind = "ok"]
    /\ UNCHANGED <<wDoc, wQueue, storeVars, reconVars, compVars, styleVars, jsonVars, aiVars>>
    /\ UNCHANGED <<pipeVars, callVars>>

\* lines 329-332: what the catch block throws
WrappedError(cause) ==
    [kind |-> "error", message |-> <<"Failed to extract widgets: ", cause>>]

\* lines 265-314 and 329-332: the parse or the traversal throws
WTraversalFails ==
    /\ wpc = "ready"
    /\ wpc' = "failed"
    /\ wResult' = WrappedError("traversal")
    /\ UNCHANGED <<wDoc, wQueue, storeVars, reconVars, compVars, styleVars, jsonVars, aiVars>>
    /\ UNCHANGED <<pipeVars, callVars>>

\* the failed write is skipped and the loop goes on
WSaveFailsSkips ==
    /\ wpc = "saving"
    /\ wQueue # <<>>
    /\ wQueue' = Tail(wQueue)
    /\ UNCHANGED <<wpc, wDoc, wResult>>
    /\ UNCHANGED <<storeVars, reconVars, compVars, styleVars, jsonVars, aiVars>>
    /\ UNCHANGED <<pipeVars, callVars>>

\* lines 318-320 and 329-332: databaseService.saveWidget throws
WSaveFails ==
    /\ wpc = "saving"
    /\ wQueue # <<>>
    /\ wpc' = "failed"
    /\ wResult' = WrappedError("Failed to save widget")
    /\ UNCHANGED <<wDoc, wQueue, storeVars, reconVars, compVars, styleVars, jsonVars, aiVars>>
    /\ UNCHANGED <<pipeVars, callVars>>

MaxWidgetDocNodes == 3

WidgetDocLabels == {[tag |-> t, id |-> ""] : t \in {"div", "span", "main", "section"}}

WidgetDocs == ForestsUpTo(MaxWidgetDocNodes, WidgetDocLabels, {Txt("X"), Txt("$$")})

StoreEmpty ==
    /\ components = <<>> /\ placeholder_html = <<>> /\ widgets = <<>>
    /\ optimized_components = <<>> /\ reconstructed_html = <<>>

InitWidgets ==
    /\ wDoc \in WidgetDocs
    /\ wpc = "ready" /\ wResult = NoResult /\ wQueue = <<>>
    /\ StoreEmpty /\ ReconIdle /\ CompIdle /\ StyleIdle /\ JsonIdle /\ AiIdle
    /\ PipeIdle /\ CallsIdle

NextWidgets == WExtract \/ WSave \/ WReturn \/ WTraversalFails \/ WSaveFails

SpecWidgets == InitWidgets /\ [][NextWidgets]_vars

-----------------------------------------------------------------------------
(* Claims about widget extraction.                                         *)

WidgetTokens(s) == SelectSeq(s, LAMBDA a : a.k = "wtok")

RECURSIVE TakenInPreOrder(_, _)
\* the elements a depth-first pre-order walk meets and takes out, in order
TakenInPreOrder(nodes, insideSection) ==
    IF nodes = <<>> THEN <<>>
    ELSE LET e == Head(nodes)
             here == IF IsText(e) THEN <<>>
                     ELSE IF TakesElement(e.tag, insideSection) THEN <<e>>
                     ELSE TakenInPreOrder(e.kids, insideSection \/ e.tag = "section")
         IN  here \o TakenInPreOrder(Tail(nodes), insideSection)

RECURSIVE AfterWidgets(_, _)
\* the widget pass of reconstructHtml over the given rows
AfterWidgets(html, rows) ==
    IF rows = <<>> THEN html
    ELSE AfterWidgets(ApplyWidget(html, 0, Head(rows)).html, Tail(rows))

RECURSIVE HoldsText(_, _)
\* some text node of the forest holds the atom
HoldsText(nodes, a) ==
    \E j \in 1..Len(nodes) :
        IF IsText(nodes[j]) THEN nodes[j].text = <<a>>
        ELSE HoldsText(nodes[j].kids, a)

\* C4: one extractWidgets call emits the tokens {{widget-1}} .. {{widget-k}},
\* without gap or duplicate, in the order a depth-first pre-order walk finds
\* the elements, and totalWidgets = k = the number of keys of the widgets map.
C4_TokensNumbered ==
    (wpc = "done") =>
        LET k == wResult.totalWidgets
            taken == TakenInPreOrder(wDoc, FALSE)
        IN  /\ k = Len(wResult.widgets)
            /\ k = Len(taken)
            /\ \A j \in 1..k :
                  /\ wResult.widgets[j].widget_key = WidgetKey(j)
                  /\ wResult.widgets[j].widget_html = OuterHTML(taken[j])
            /\ WidgetTokens(wResult.modifiedHtml) = [j \in 1..k |-> WidgetKey(j)]
            /\ widgets = wResult.widgets

C4_Witness ==
    /\ wpc = "done"
    /\ wResult.totalWidgets = 2
    /\ \E j \in 1..Len(wDoc) : wDoc[j].tag = "div" /\ wDoc[j].kids # <<>>

\* C5: for a document whose text holds no widget token, replacing each token
\* of modifiedHtml by the fragment stored under it, as the widget pass of
\* reconstruct does, gives back the document: the string that results is the
\* serialization of the tree extractWidgets was given.  (Two strings of this
\* model that differ parse to different trees: tags are balanced and a text
\* atom is a text node's content.)
C5_RoundTrip ==
    (wpc = "done") =>
        AfterWidgets(wResult.modifiedHtml, GetAllWidgets) = Serialize(wDoc)

\* what the code keeps of C5: the round trip of a document that holds no
\* replacement pattern
C5_PatternFree ==
    (wpc = "done" /\ ~HoldsText(wDoc, Txt("$$"))) => C5_RoundTrip

-----------------------------------------------------------------------------
(* Paths.  An element of a document is named by the child indexes that     *)
(* lead to it.  Replacing an element by a text node keeps every other path. *)

RECURSIVE NodeAt(_, _)
NodeAt(forest, path) ==
    IF Len(path) = 1 THEN forest[path[1]]
    ELSE NodeAt(forest[path[1]].kids, Tail(path))

RECURSIVE IsPath(_, _)
IsPath(forest, path) ==
    /\ path # <<>>
    /\ path[1] \in 1..Len(forest)
    /\ Len(path) > 1 => IsPath(forest[path[1]].kids, Tail(path))

RECURSIVE ReplaceAt(_, _, _)
\* the forest with the node at the path replaced; a path that no longer
\* leads into the forest (its element was detached) changes nothing
ReplaceAt(forest, path, node) ==
    IF ~IsPath(forest, path) THEN forest
    ELSE IF Len(path) = 1 THEN [forest EXCEPT ![path[1]] = node]
    ELSE [forest EXCEPT ![path[1]].kids = ReplaceAt(@, Tail(path), node)]

RECURSIVE ElementPaths(_, _)
\* $('*').toArray(): the elements in document order
ElementPaths(forest, prefix) ==
    Concat([j \in 1..Len(forest) |->
              IF IsText(forest[j]) THEN <<>>
              ELSE <<prefix \o <<j>>>>
                   \o ElementPaths(forest[j].kids, prefix \o <<j>>)])

\* $('#' + id).toArray()
SelectById(forest, id) ==
    SelectSeq(ElementPaths(forest, <<>>), LAMBDA p : NodeAt(forest, p).id = id)

\* $(tag).toArray()
SelectByTag(forest, tag) ==
    SelectSeq(ElementPaths(forest, <<>>), LAMBDA p : NodeAt(forest, p).tag = tag)

ProperPrefixes(path) == {SubSeq(path, 1, m) : m \in 1..(Len(path) - 1)}

\* $(element).parents(tag).length > 0
HasAncestor(forest, path, tag) ==
    \E q \in ProperPrefixes(path) : NodeAt(forest, q).tag = tag

RECURSIVE SetWigAll(_, _, _)
\* $elements.attr('wig-id', value)
SetWigAll(forest, paths, value) ==
    IF paths = <<>> THEN forest
    ELSE LET p == Head(paths)
         IN  SetWigAll(ReplaceAt(forest, p, [NodeAt(forest, p) EXCEPT !.wig = <<value>>]),
                       Tail(paths), value)

RECURSIVE ReplaceAllWith(_, _, _)
\* $elements.replaceWith(text): each element gives way to a text node; an
\* element inside another replaced element is replaced in the detached
\* subtree, which the document no longer holds
ReplaceAllWith(forest, paths, a) ==
    IF paths = <<>> THEN forest
    ELSE ReplaceAllWith(ReplaceAt(forest, Head(paths), TextNode(a)), Tail(paths), a)

\* $elements.children().length
ChildrenCount(forest, paths) ==
    LET n(p) == Cardinality({j \in 1..Len(NodeAt(forest, p).kids) :
                                ~IsText(NodeAt(forest, p).kids[j])})
        RECURSIVE sum(_)
        sum(ps) == IF ps = <<>> THEN 0 ELSE n(Head(ps)) + sum(Tail(ps))
    IN  sum(paths)

-----------------------------------------------------------------------------
(* ComponentExtractionService.extractComponents                            *)
(* src/services/htmlStyleProcessorService.ts, lines 356-562                *)

targetIds == <<"pinnedTopLeft", "pinnedTopRight", "pinnedBottomLeft">>

\* let placeholderCounter = 1
PlaceholderCounterStart == 1

\* lines 523-537 and 539-559: the document wrapped around a component
CreateCleanComponentHTML(componentHtml, elementId, placeholderId) ==
    <<Atom("component-page", elementId, "", placeholderId)>> \o componentHtml
    \o <<Atom("end-page", "", "", <<>>)>>

CreateNotFoundComponentHTML(elementId, placeholderId) ==
    <<Atom("not-found-page", elementId, "", placeholderId),
      Atom("end-page", "", "", <<>>)>>

\* lines 405-410
NotFoundHtml(targetId, placeholderId) ==
    <<Atom("not-found", targetId, "", placeholderId)>>

\* the token is written into the document although nothing was found
AbsentTargetWritesToken(dom, placeholderId, targetId, dbId) ==
    [dom |-> Append(dom, TextNode(CTok(placeholderId))),
     row |-> [placeholder_id |-> placeholderId, original_id |-> targetId,
              type |-> "target-id",
              html_content |-> NotFoundHtml(targetId, placeholderId)],
     fragment |-> [placeholderId |-> placeholderId, originalId |-> targetId,
                   type |-> "target-id", found |-> FALSE,
                   componentHtml |-> CreateNotFoundComponentHTML(targetId, placeholderId),
                   childrenCount |-> 0, dbId |-> dbId],
     paths |-> <<>>]

\* lines 402-428: the target id is not in the document
AbsentTarget(dom, placeholderId, targetId, dbId) ==
    [dom |-> dom,
     row |-> [placeholder_id |-> placeholderId, original_id |-> targetId,
              type |-> "target-id",
              html_content |-> NotFoundHtml(targetId, placeholderId)],
     fragment |-> [placeholderId |-> placeholderId, originalId |-> targetId,
                   type |-> "target-id", found |-> FALSE,
                   componentHtml |-> CreateNotFoundComponentHTML(targetId, placeholderId),
                   childrenCount |-> 0, dbId |-> dbId],
     paths |-> <<>>]

\* lines 377-401 and 458-479: the selected elements are marked, captured and
\* replaced by the token
Capture(dom, paths, placeholderId, originalId, type, dbId) ==
    LET marked == SetWigAll(dom, paths, CTok(placeholderId))
        html == Concat([j \in 1..Len(paths) |-> OuterHTML(NodeAt(marked, paths[j]))])
        after == ReplaceAllWith(marked, paths, CTok(placeholderId))
    IN  [dom |-> after,
         row |-> [placeholder_id |-> placeholderId, original_id |-> originalId,
                  type |-> type, html_content |-> html],
         fragment |-> [placeholderId |-> placeholderId, originalId |-> originalId,
                       type |-> type, found |-> TRUE,
                       componentHtml |->
                           CreateCleanComponentHTML(html, originalId, placeholderId),
                       childrenCount |-> ChildrenCount(marked, paths),
                       dbId |-> dbId],
         paths |-> paths]

\* lines 372-429: one iteration of the target loop
TargetStep(dom, placeholderId, targetId, dbId) ==
    LET found == SelectById(dom, targetId)
    IN  IF Len(found) > 0
        THEN Capture(dom, found, placeholderId, targetId, "target-id", dbId)
        ELSE AbsentTarget(dom, placeholderId, targetId, dbId)

CounterAfterTargetFoundOnly(counter, found) ==
    IF found THEN counter + 1 ELSE counter

\* line 375: placeholderCounter++, found or not
CounterAfterTarget(counter, found) == counter + 1

\* `section_${index + 1}`
SectionIdStrings ==
    <<"section_1", "section_2", "section_3", "section_4", "section_5",
      "section_6", "section_7", "section_8", "section_9">>

\* the id attribute is not read
SectionIdSynthesized(element, index) == SectionIdStrings[index + 1]

\* line 439: $section.attr('id') || `section_${index + 1}`
SectionId(element, index) ==
    IF element.id # "" THEN element.id ELSE SectionIdStrings[index + 1]

IsNestedNever(snap, path) == FALSE

\* line 441: $section.parents('section').length > 0.  snap is the document
\* as $('section') found it: an extracted section is detached with its
\* subtree, so the ancestors of a section below it stay what they were.
IsNested(snap, path) == HasAncestor(snap, path, "section")

\* lines 484-491: what the cleanup removes.  A link element of this model
\* is a stylesheet link.
Cleaned(element) ==
    \/ element.tag \in {"script", "style", "link", "meta", "title", "header", "footer"}
    \/ element.id = "soapAfterPagesContainer"

RECURSIVE Cleanup(_)
Cleanup(forest) ==
    LET kept == SelectSeq(forest, LAMBDA e : IsText(e) \/ ~Cleaned(e))
    IN  [j \in 1..Len(kept) |->
            IF IsText(kept[j]) THEN kept[j]
            ELSE [kept[j] EXCEPT !.kids = Cleanup(@)]]

\* lines 500-510
CleanHtmlStructure(bodyContent) ==
    <<Txt("<!DOCTYPE html>"), Open("html", ""), Open("head", ""),
      Open("meta", ""), Open("meta", ""), Open("title", ""),
      Txt("Extracted Content with Placeholders"), Close("title"),
      Close("head"), Open("body", "")>>
    \o bodyContent \o <<Close("body"), Close("html")>>

\* lines 359-368
CStart ==
    /\ cpc = "ready"
    /\ cpc' = "targets"
    /\ cDom' = cInput
    /\ extractedComponents' = <<>>
    /\ cLog' = <<>>
    /\ placeholderCounter' = PlaceholderCounterStart
    /\ cIdx' = 1
    /\ UNCHANGED <<cInput, sectionElements, cSnap, processedSections, cResult>>
    /\ UNCHANGED <<storeVars, reconVars, widgetVars, styleVars, jsonVars, aiVars>>
    /\ UNCHANGED <<pipeVars, callVars>>

\* lines 372-429, one target; after the last one, line 433-434
CTarget ==
    /\ cpc = "targets"
    /\ LET targetId == targetIds[cIdx]
           r == TargetStep(cDom, PlaceholderId(placeholderCounter), targetId,
                           Len(components) + 1)
       IN  /\ cDom' = r.dom
           /\ components' = Insert(components, r.row)
           /\ extractedComponents' = Append(extractedComponents, r.fragment)
           /\ cLog' = Append(cLog, [type |-> "target-id", paths |-> r.paths])
           /\ placeholderCounter' =
                  CounterAfterTarget(placeholderCounter, r.fragment.found)
           /\ IF cIdx < Len(targetIds)
              THEN /\ cIdx' = cIdx + 1
                   /\ UNCHANGED <<cpc, sectionElements, cSnap, processedSections>>
              ELSE /\ cpc' = "sections"
                   /\ cIdx' = 0
                   /\ sectionElements' = SelectByTag(r.dom, "section")
                   /\ cSnap' = r.dom
                   /\ processedSections' = {}
    /\ UNCHANGED <<cInput, cResult>>
    /\ UNCHANGED <<placeholder_html, widgets, optimized_components, reconstructed_html>>
    /\ UNCHANGED <<reconVars, widgetVars, styleVars, jsonVars, aiVars>>
    /\ UNCHANGED <<pipeVars, callVars>>

\* lines 436-480, one section
CSection ==
    /\ cpc = "sections"
    /\ cIdx < Len(sectionElements)
    /\ LET path == sectionElements[cIdx + 1]
           sectionId == SectionId(NodeAt(cSnap, path), cIdx)
       IN  IF IsNested(cSnap, path) \/ sectionId \in processedSections
           THEN UNCHANGED <<cDom, components, extractedComponents, cLog,
                            placeholderCounter, processedSections>>
           ELSE LET live == IsPath(cDom, path)
                    \* an element detached with an extracted ancestor is
                    \* marked and captured in its detached subtree
                    r == Capture(IF live THEN cDom ELSE cSnap, <<path>>,
                                 PlaceholderId(placeholderCounter),
                                 sectionId, "section", Len(components) + 1)
                IN  /\ processedSections' = processedSections \cup {sectionId}
                    /\ placeholderCounter' = placeholderCounter + 1
                    /\ cDom' = IF live THEN r.dom ELSE cDom
                    /\ components' = Insert(components, r.row)
                    /\ extractedComponents' = Append(extractedComponents, r.fragment)
                    /\ cLog' = Append(cLog, [type |-> "section", paths |-> r.paths])
    /\ cIdx' = cIdx + 1
    /\ UNCHANGED <<cpc, cInput, sectionElements, cSnap, cResult>>
    /\ UNCHANGED <<placeholder_html, widgets, optimized_components, reconstructed_html>>
    /\ UNCHANGED <<reconVars, widgetVars, styleVars, jsonVars, aiVars>>
    /\ UNCHANGED <<pipeVars, callVars>>

\* lines 482-520
CFinish ==
    /\ cpc = "sections"
    /\ cIdx = Len(sectionElements)
    /\ LET cleanHtmlStructure == CleanHtmlStructure(InnerHTML(Cleanup(cDom)))
       IN  /\ cDom' = Cleanup(cDom)
           /\ placeholder_html' =
                  Insert(placeholder_html,
                         [html_content |-> cleanHtmlStructure,
                          total_placeholders |-> Len(extractedComponents)])
           /\ cResult' = [kind |-> "ok", cleanedHtml |-> cleanHtmlStructure,
                          components |-> extractedComponents]
    /\ cpc' = "done"
    /\ UNCHANGED <<cInput, cIdx, sectionElements, cSnap, processedSections,
                   placeholderCounter, extractedComponents, cLog>>
    /\ UNCHANGED <<components, widgets, optimized_components, reconstructed_html>>
    /\ UNCHANGED <<reconVars, widgetVars, styleVars, jsonVars, aiVars>>
    /\ UNCHANGED <<pipeVars, callVars>>

\* lines 386-391, 412-417 and 466-471: databaseService.saveComponent throws
\* in the target loop or for a section that is being extracted; the error
\* leaves extractComponents as it is
CSaveFails ==
    /\ \/ cpc = "targets"
       \/ /\ cpc = "sections"
          /\ cIdx < Len(sectionElements)
          /\ LET path == sectionElements[cIdx + 1]
             IN  /\ ~IsNested(cSnap, path)
                 /\ SectionId(NodeAt(cSnap, path), cIdx) \notin processedSections
    /\ cpc' = "failed"
    /\ cResult' = [kind |-> "error", message |-> "Failed to save component"]
    /\ UNCHANGED <<cInput, cDom, cIdx, sectionElements, cSnap, processedSections,
                   placeholderCounter, extractedComponents, cLog>>
    /\ UNCHANGED <<storeVars, reconVars, widgetVars, styleVars, jsonVars, aiVars>>
    /\ UNCHANGED <<pipeVars, callVars>>

\* line 515: databaseService.savePlaceholderHtml throws
CTemplateSaveFails ==
    /\ cpc = "sections"
    /\ cIdx = Len(sectionElements)
    /\ cpc' = "failed"
    /\ cResult' = [kind |-> "error", message |-> "Failed to save placeholder HTML"]
    /\ UNCHANGED <<cInput, cDom, cIdx, sectionElements, cSnap, processedSections,
                   placeholderCounter, extractedComponents, cLog>>
    /\ UNCHANGED <<storeVars, reconVars, widgetVars, styleVars, jsonVars, aiVars>>
    /\ UNCHANGED <<pipeVars, callVars>>

MaxComponentDocNodes == 3

ComponentDocLabels ==
    {[tag |-> "section", id |-> ""], [tag |-> "section", id |-> "a"],
     [tag |-> "section", id |-> "pinnedTopLeft"],
     [tag |-> "div", id |-> ""], [tag |-> "div", id |-> "pinnedTopLeft"],
     [tag |-> "header", id |-> ""]}

\* <section id="a">X</section><section id="b"><section id="c">Y</section></section>
TwoSectionsDoc ==
    <<El("section", "a", <<TextNode(Txt("X"))>>),
      El("section", "b", <<El("section", "c", <<TextNode(Txt("Y"))>>)>>)>>

ComponentDocs ==
    ForestsUpTo(MaxComponentDocNodes, ComponentDocLabels, {Txt("X")})
    \cup {TwoSectionsDoc}

InitComponents ==
    /\ cInput \in ComponentDocs
    /\ cpc = "ready" /\ cDom = <<>> /\ cIdx = 0
    /\ sectionElements = <<>> /\ cSnap = <<>> /\ processedSections = {}
    /\ placeholderCounter = 0 /\ extractedComponents = <<>> /\ cLog = <<>>
    /\ cResult = NoResult
    /\ StoreEmpty /\ ReconIdle /\ WidgetIdle /\ StyleIdle /\ JsonIdle /\ AiIdle
    /\ PipeIdle /\ CallsIdle

NextComponents ==
    \/ CStart \/ CTarget \/ CSection \/ CFinish
    \/ CSaveFails \/ CTemplateSaveFails

SpecComponents == InitComponents /\ [][NextComponents]_vars

-----------------------------------------------------------------------------
(* Component extraction: properties                                        *)

Range(s) == {s[j] : j \in 1..Len(s)}

\* sub occurs in s as a contiguous run
IsInfix(sub, s) ==
    \E j \in 0..(Len(s) - Len(sub)) : SubSeq(s, j + 1, j + Len(sub)) = sub

InputSections == SelectByTag(cInput, "section")
NestedInputSections ==
    {p \in Range(InputSections) : HasAncestor(cInput, p, "section")}
TopInputSections == Range(InputSections) \ NestedInputSections

\* the sections below the section at path a
SectionsBelow(a) ==
    {b \in Range(InputSections) : a \in ProperPrefixes(b)}

NoTargetInInput == \A j \in 1..Len(targetIds) : SelectById(cInput, targetIds[j]) = <<>>

\* the position of a section among $('section') of the input
SectionIndex(p) == CHOOSE j \in 1..Len(InputSections) : InputSections[j] = p

ResolvedId(p) == SectionId(NodeAt(cInput, p), SectionIndex(p) - 1)

FirstWithItsId(a) ==
    \A o \in TopInputSections :
        SectionIndex(o) < SectionIndex(a) => ResolvedId(o) # ResolvedId(a)

\* the Fragments taken for the element at path p, as positions of the list
FragmentsOf(p, types) ==
    {j \in 1..Len(cLog) : cLog[j].type \in types /\ p \in Range(cLog[j].paths)}

ComponentTokensOf(s) == SelectSeq(s, LAMBDA a : a.k = "ctok")

\* C6 as stated: a section with a section ancestor never receives a token or
\* a Fragment of its own, and where section A contains section B exactly one
\* section Fragment is produced, for A, holding B's markup unchanged.
C6_AsClaimed ==
    cpc = "done" =>
        /\ \A b \in NestedInputSections :
               FragmentsOf(b, {"target-id", "section"}) = {}
        /\ \A a \in TopInputSections : \A b \in SectionsBelow(a) :
               /\ Cardinality(FragmentsOf(a, {"section"})) = 1
               /\ \A j \in FragmentsOf(a, {"section"}) :
                      IsInfix(OuterHTML(NodeAt(cInput, b)),
                              extractedComponents[j].componentHtml)

\* C6 amended: the section phase of extractComponents gives a section with a
\* section ancestor no token and no Fragment; and for an input that holds none
\* of the configured target ids, where a section A without a section ancestor,
\* the first such section with its resolved id, contains section B, exactly
\* one section Fragment is produced for A, none for B, and B's markup appears
\* unchanged inside A's captured markup.
C6_NestedSectionSkipped ==
    /\ \A b \in NestedInputSections : FragmentsOf(b, {"section"}) = {}
    /\ (cpc = "done" /\ NoTargetInInput) =>
          \A a \in TopInputSections : \A b \in SectionsBelow(a) :
              FirstWithItsId(a) =>
                  /\ Cardinality(FragmentsOf(a, {"section"})) = 1
                  /\ FragmentsOf(b, {"target-id", "section"}) = {}
                  /\ \A j \in FragmentsOf(a, {"section"}) :
                         /\ extractedComponents[j].found
                         /\ IsInfix(OuterHTML(NodeAt(cInput, b)),
                                    extractedComponents[j].componentHtml)

C6_Witness ==
    /\ cpc = "done" /\ NoTargetInInput
    /\ \E a \in TopInputSections :
           /\ SectionsBelow(a) # {}
           /\ FirstWithItsId(a)
           /\ FragmentsOf(a, {"section"}) # {}

\* C7: on <section id="a">X</section><section id="b"><section id="c">Y
\* </section></section> the returned list is one found=false Fragment per
\* configured target, in the order of the target list, then the section
\* Fragments of a and of the outer b, none of c; the cleaned template holds
\* the two section tokens in document order.
C7_TwoSections ==
    (cpc = "done" /\ cInput = TwoSectionsDoc) =>
        LET cs == cResult.components
        IN  /\ Len(cs) = Len(targetIds) + 2
            /\ \A j \in 1..Len(targetIds) :
                   /\ ~cs[j].found
                   /\ cs[j].type = "target-id"
                   /\ cs[j].originalId = targetIds[j]
            /\ cs[4].type = "section" /\ cs[4].found /\ cs[4].originalId = "a"
            /\ cs[5].type = "section" /\ cs[5].found /\ cs[5].originalId = "b"
            /\ \A j \in 1..Len(cs) : cs[j].originalId # "c"
            /\ IsInfix(OuterHTML(TwoSectionsDoc[2].kids[1]), cs[5].componentHtml)
            /\ ComponentTokensOf(cResult.cleanedHtml)
                   = <<CTok(cs[4].placeholderId), CTok(cs[5].placeholderId)>>

C7_Witness ==
    /\ cpc = "done" /\ cInput = TwoSectionsDoc
    /\ Len(cResult.components) = 5
    /\ Len(placeholder_html) = 1

Started == cpc \in {"targets", "sections", "done"}

\* C8: the token counter starts at 1, advances by one for every configured
\* target, found or not, and runs on into the section phase: the j-th
\* Fragment carries token number j, and the first extracted section carries
\* wigoh-id-004.
C8_TokenNumbering ==
    Started =>
        /\ (cpc = "targets" /\ cIdx = 1) => placeholderCounter = 1
        /\ placeholderCounter = Len(extractedComponents) + 1
        /\ \A j \in 1..Len(extractedComponents) :
               /\ extractedComponents[j].placeholderId = PlaceholderId(j)
               /\ (j <= Len(targetIds)) =
                      (extractedComponents[j].type = "target-id")
               /\ (/\ extractedComponents[j].type = "section"
                   /\ \A m \in 1..(j - 1) : extractedComponents[m].type # "section")
                  => extractedComponents[j].placeholderId = <<0, 0, 4>>
        /\ cpc = "done" => cResult.components = extractedComponents

C8_Witness ==
    /\ cpc = "done"
    /\ \E j \in 1..Len(cResult.components) :
           cResult.components[j].type = "target-id" /\ cResult.components[j].found
    /\ \E j \in 1..Len(cResult.components) : ~cResult.components[j].found
    /\ \E j \in 1..Len(cResult.components) :
           /\ cResult.components[j].type = "section"
           /\ cResult.components[j].placeholderId = <<0, 0, 4>>


TargetAbsent == cpc = "targets" /\ SelectById(cDom, targetIds[cIdx]) = <<>>

\* C9: for a configured target id the document does not hold, the step, when
\* its write succeeds, leaves the document as it is, persists a row and
\* returns a found=false Fragment under the reserved token; and no
\* found=false Fragment's token occurs in the cleaned template.
C9_AbsentTarget ==
    [][/\ (TargetAbsent /\ cpc' # "failed") =>
              LET reserved == PlaceholderId(placeholderCounter)
                  fragment == extractedComponents'[Len(extractedComponents')]
                  row == components'[Len(components')]
              IN  /\ cDom' = cDom
                  /\ Len(extractedComponents') = Len(extractedComponents) + 1
                  /\ Len(components') = Len(components) + 1
                  /\ ~fragment.found
                  /\ fragment.placeholderId = reserved
                  /\ fragment.originalId = targetIds[cIdx]
                  /\ row.placeholder_id = reserved
                  /\ row.original_id = targetIds[cIdx]
       /\ cpc' = "done" =>
              /\ cResult'.components = extractedComponents
              /\ \A j \in 1..Len(extractedComponents) :
                     ~extractedComponents[j].found =>
                         ~Includes(cResult'.cleanedHtml,
                                   CTok(extractedComponents[j].placeholderId))
      ]_vars

C9_Witness ==
    /\ cpc = "done"
    /\ \E j \in 1..Len(cResult.components) : ~cResult.components[j].found
    /\ \E j \in 1..Len(cResult.components) :
           /\ cResult.components[j].found
           /\ Includes(cResult.cleanedHtml, CTok(cResult.components[j].placeholderId))
    /\ Len(components) = Len(cResult.components)

-----------------------------------------------------------------------------
(* HtmlStyleProcessorService                                               *)
(* src/services/htmlStyleProcessorService.ts, lines 24-243                 *)
(* A style document is a JSON value: an array, an object or anything else. *)
(* An object holds tag and html (the empty string when it has none), its   *)
(* styles object when hasStyles, and its children array.  A styles object  *)
(* is the sequence of its properties.  An element of the HTML document is  *)
(* its tag, the declarations of its style attribute and its children.      *)

JArr(items) == [kind |-> "array", items |-> items]
JOther == [kind |-> "other"]
JObj(label, children) ==
    [kind |-> "object", tag |-> label.tag, html |-> label.html,
     hasStyles |-> label.hasStyles, styles |-> label.styles,
     children |-> children]

\* a property of a styles object; a value is its typeof and, for a string,
\* the string
Decl(property, value) == [property |-> property, value |-> value]
Str(s) == [type |-> "string", v |-> s]
NullValue == [type |-> "null", v |-> ""]

SEl(tag, style, kids) == [tag |-> tag, style |-> style, kids |-> kids]

excludedTags == {"html", "head", "meta", "title", "script", "noscript", "style", "link"}

\* String.prototype.toLowerCase on the strings of this model
ToLowerCase(str) ==
    CASE str = "SCRIPT" -> "script"
      [] str = "<Script>" -> "<script>"
      [] OTHER -> str

\* data.html.toLowerCase().includes('<script')
IncludesScript(html) == ToLowerCase(html) = "<script>"

RECURSIVE FlattenElements(_, _)
RECURSIVE FlattenEach(_, _)
\* lines 41-75
FlattenElements(data, flatArray) ==
    IF data.kind = "array" THEN FlattenEach(data.items, flatArray)
    ELSE IF data.kind = "object"
    THEN IF data.hasStyles
         THEN IF data.tag # "" /\ ToLowerCase(data.tag) = "script" THEN flatArray
              ELSE IF data.html # "" /\ IncludesScript(data.html) THEN flatArray
              ELSE FlattenEach(data.children,
                               Append(flatArray,
                                      [tag |-> data.tag, html |-> data.html,
                                       styles |-> data.styles,
                                       jsonIndex |-> Len(flatArray)]))
         ELSE FlattenEach(data.children, flatArray)
    ELSE flatArray

\* the for loops of lines 43-45 and 69-71
FlattenEach(items, flatArray) ==
    IF items = <<>> THEN flatArray
    ELSE FlattenEach(Tail(items), FlattenElements(Head(items), flatArray))

\* lines 77-95: null for a script element, else the element's opening and
\* closing tag
GetElementHtmlString(element) ==
    IF element.tag = "script" THEN [isNull |-> TRUE, str |-> <<>>]
    ELSE [isNull |-> FALSE, str |-> <<Open(element.tag, ""), Close(element.tag)>>]

\* $element.closest('body').length > 0 || tagName === 'body'
IsInBody(doc, path) ==
    NodeAt(doc, path).tag = "body" \/ HasAncestor(doc, path, "body")

\* lines 105-122
AllHtmlElements(doc) ==
    SelectSeq(ElementPaths(doc, <<>>),
              LAMBDA p : NodeAt(doc, p).tag \notin excludedTags /\ IsInBody(doc, p))

\* lines 172-184: the declarations the inline style string is made of
InlineStyle(styles) ==
    SelectSeq(styles, LAMBDA d : /\ d.value.type \in {"string", "number"}
                                 /\ d.value # Str(""))

\* the style attribute is overwritten, not extended
ApplyStyleOverwrites(dom, path, inline) ==
    IF inline = <<>> THEN dom
    ELSE ReplaceAt(dom, path, [NodeAt(dom, path) EXCEPT !.style = inline])

\* lines 186-193
ApplyStyle(dom, path, inline) ==
    IF inline = <<>> THEN dom
    ELSE ReplaceAt(dom, path, [NodeAt(dom, path) EXCEPT !.style = @ \o inline])

NoJsonEntryUncounted(st) == st

\* lines 196-199
NoJsonEntry(st) == [st EXCEPT !.indexMismatches = @ + 1]

\* lines 132-200: one iteration
LoopStep(st, htmlIndex, allHtmlElements, jsonStylesArray) ==
    LET path == allHtmlElements[htmlIndex + 1]
        htmlElement == NodeAt(st.dom, path)
    IN  IF htmlElement.tag = "script"
        THEN [st EXCEPT !.skippedScriptElements = @ + 1]
        ELSE IF GetElementHtmlString(htmlElement).isNull
        THEN [st EXCEPT !.skippedScriptElements = @ + 1]
        ELSE IF htmlIndex < Len(jsonStylesArray)
        THEN LET jsonEntry == jsonStylesArray[htmlIndex + 1]
             IN  IF jsonEntry.tag # "" /\ ToLowerCase(jsonEntry.tag) = "script"
                 THEN [st EXCEPT !.indexMismatches = @ + 1]
                 ELSE IF jsonEntry.html # "" /\ IncludesScript(jsonEntry.html)
                 THEN [st EXCEPT !.indexMismatches = @ + 1]
                 ELSE [st EXCEPT
                          !.dom = ApplyStyle(@, path, InlineStyle(jsonEntry.styles)),
                          !.totalMatches = @ + 1]
        ELSE NoJsonEntry(st)

RECURSIVE Loop(_, _, _, _)
Loop(st, htmlIndex, allHtmlElements, jsonStylesArray) ==
    IF htmlIndex < Len(allHtmlElements)
    THEN Loop(LoopStep(st, htmlIndex, allHtmlElements, jsonStylesArray),
              htmlIndex + 1, allHtmlElements, jsonStylesArray)
    ELSE st

RECURSIVE RemoveStyleElements(_)
\* lines 225-242: $('style').remove(); the line breaks formatCleanHtml
\* rewrites lie between tags and are no part of an element
RemoveStyleElements(forest) ==
    LET kept == SelectSeq(forest, LAMBDA e : e.tag # "style")
    IN  [j \in 1..Len(kept) |-> [kept[j] EXCEPT !.kids = RemoveStyleElements(@)]]

\* ((totalMatches / n) * 100).toFixed(1), in tenths of a percent
ApplicationRate(totalMatches, n) == (2000 * totalMatches + n) \div (2 * n)

\* lines 97-223
ProcessHtmlResult(rawHtml, layoutJson) ==
    LET jsonStylesArray == FlattenElements(layoutJson, <<>>)
        allHtmlElements == AllHtmlElements(rawHtml)
        end == Loop([dom |-> rawHtml, totalMatches |-> 0,
                     skippedScriptElements |-> 0, indexMismatches |-> 0],
                    0, allHtmlElements, jsonStylesArray)
    IN  [kind |-> "ok",
         styledHtml |-> RemoveStyleElements(end.dom),
         stats |-> [totalMatches |-> end.totalMatches,
                    totalHtmlElements |-> Len(allHtmlElements),
                    totalJsonEntries |-> Len(jsonStylesArray),
                    indexMismatches |-> end.indexMismatches,
                    skippedScriptElements |-> end.skippedScriptElements,
                    applicationRate |->
                        ApplicationRate(end.totalMatches, Len(allHtmlElements))]]

ProcessHtml ==
    /\ ppc = "ready"
    /\ pResult' = ProcessHtmlResult(pHtml, pJson)
    /\ ppc' = "done"
    /\ UNCHANGED <<pHtml, pJson>>
    /\ UNCHANGED <<storeVars, reconVars, widgetVars, compVars, jsonVars, aiVars>>
    /\ UNCHANGED <<pipeVars, callVars>>


MaxStyleNodes == 2
MaxHtmlNodes == 2

StyleLabels ==
    {[tag |-> "div", html |-> "", hasStyles |-> FALSE, styles |-> <<>>],
     [tag |-> "div", html |-> "", hasStyles |-> TRUE, styles |-> <<>>],
     [tag |-> "div", html |-> "", hasStyles |-> TRUE,
      styles |-> <<Decl("color", Str("red")), Decl("width", NullValue)>>],
     [tag |-> "SCRIPT", html |-> "", hasStyles |-> TRUE,
      styles |-> <<Decl("color", Str("blue"))>>],
     [tag |-> "", html |-> "<Script>", hasStyles |-> TRUE,
      styles |-> <<Decl("color", Str("green"))>>]}

RECURSIVE StyleForests(_)
\* the arrays of style objects that hold n objects in all
StyleForests(n) ==
    IF n = 0 THEN {<<>>}
    ELSE UNION {UNION {{<<JObj(l, c)>> \o f : f \in StyleForests(n - k)} :
                          l \in StyleLabels, c \in StyleForests(k - 1)} :
                   k \in 1..n}

StyleDocs ==
    LET arrays == UNION {StyleForests(m) : m \in 0..MaxStyleNodes}
    IN  {JArr(a) : a \in arrays} \cup {a[1] : a \in {b \in arrays : Len(b) = 1}}
        \cup {JOther}

HtmlLabels ==
    {[tag |-> "div", style |-> <<>>],
     [tag |-> "p", style |-> <<Decl("margin", Str("0"))>>],
     [tag |-> "script", style |-> <<>>]}

RECURSIVE HtmlForests(_)
HtmlForests(n) ==
    IF n = 0 THEN {<<>>}
    ELSE UNION {UNION {{<<SEl(l.tag, l.style, c)>> \o f : f \in HtmlForests(n - k)} :
                          l \in HtmlLabels, c \in HtmlForests(k - 1)} :
                   k \in 1..n}

\* cheerio.load(rawHtml): the parser supplies html, head and body
HtmlDocs ==
    {<<SEl("html", <<>>, <<SEl("head", <<>>, h), SEl("body", <<>>, b)>>)>> :
        h \in {<<>>, <<SEl("base", <<>>, <<>>)>>},
        b \in UNION {HtmlForests(m) : m \in 0..MaxHtmlNodes}}

InitStyle ==
    /\ pHtml \in HtmlDocs
    /\ pJson \in StyleDocs
    /\ ppc = "ready" /\ pResult = NoResult
    /\ StoreEmpty /\ ReconIdle /\ WidgetIdle /\ CompIdle /\ JsonIdle /\ AiIdle
    /\ PipeIdle /\ CallsIdle

NextStyle == ProcessHtml

SpecStyle == InitStyle /\ [][NextStyle]_vars

-----------------------------------------------------------------------------
(* Style matching: properties                                              *)

\* C10: the stats processHtml returns satisfy totalMatches + indexMismatches
\* + skippedScriptElements = totalHtmlElements; when the flattened style
\* entries and the qualifying elements are equally many, n, totalMatches +
\* indexMismatches = n.
C10_StatsAddUp ==
    ppc = "done" =>
        LET stats == pResult.stats
        IN  /\ stats.totalMatches + stats.indexMismatches
                   + stats.skippedScriptElements = stats.totalHtmlElements
            /\ stats.totalHtmlElements = Len(AllHtmlElements(pHtml))
            /\ stats.totalJsonEntries = Len(FlattenElements(pJson, <<>>))
            /\ stats.totalJsonEntries = stats.totalHtmlElements =>
                   stats.totalMatches + stats.indexMismatches
                       = stats.totalHtmlElements

C10_Witness ==
    /\ ppc = "done"
    /\ pResult.stats.totalMatches > 0
    /\ pResult.stats.indexMismatches > 0
    /\ pResult.stats.totalHtmlElements = 2
    /\ \E p \in Range(ElementPaths(pHtml, <<>>)) : NodeAt(pHtml, p).tag = "script"


\* C11: matching is by position.  The i-th qualifying element (document
\* order, excluded tags and elements outside body left out) ends with its
\* own style followed by the valid declarations of the i-th flattened entry,
\* and of no other; a qualifying element at an index at or beyond the number
\* of entries keeps its style and is counted once in indexMismatches; every
\* other element keeps its style; and the call returns whatever the lengths.
C11_Positional ==
    ppc = "done" =>
        LET entries == FlattenElements(pJson, <<>>)
            elements == AllHtmlElements(pHtml)
            n == Len(elements)
            m == Len(entries)
            styled == pResult.styledHtml
        IN  /\ pResult.kind = "ok"
            /\ \A i \in 1..n :
                   NodeAt(styled, elements[i]).style =
                       NodeAt(pHtml, elements[i]).style
                       \o (IF i <= m THEN InlineStyle(entries[i].styles) ELSE <<>>)
            /\ \A p \in Range(ElementPaths(pHtml, <<>>)) \ Range(elements) :
                   NodeAt(styled, p).style = NodeAt(pHtml, p).style
            /\ ElementPaths(styled, <<>>) = ElementPaths(pHtml, <<>>)
            /\ pResult.stats.indexMismatches = (IF n > m THEN n - m ELSE 0)
            /\ pResult.stats.totalMatches = (IF n > m THEN m ELSE n)

C11_Witness ==
    /\ ppc = "done"
    /\ pResult.stats.totalJsonEntries = 2
    /\ pResult.stats.totalHtmlElements = 3
    /\ pResult.stats.indexMismatches = 1
    /\ \E p \in Range(AllHtmlElements(pHtml)) :
           /\ NodeAt(pHtml, p).style # <<>>
           /\ Len(NodeAt(pResult.styledHtml, p).style) = 2
    /\ \E p \in Range(ElementPaths(pHtml, <<>>)) : NodeAt(pHtml, p).tag = "base"

-----------------------------------------------------------------------------
(* HtmlToJsonService                                                       *)
(* src/unnamed/part_001, lines 26-136                                      *)

\* elements the parser gives no content and expects no closing tag of
VoidTags == {"meta", "link", "base", "br", "img", "hr", "input"}

\* an atom that opens an element
OpensElement(a) == a.k \in {"open", "mopen"}

RECURSIVE ParseNodes(_, _)
\* The parser on the atoms from position i on: the sibling nodes up to the
\* closing tag of their parent or the end of the string, and the position it
\* stops at.  Character data that follows character data is one text node.
ParseNodes(s, i) ==
    IF i > Len(s) \/ s[i].k = "close" THEN [nodes |-> <<>>, next |-> i]
    ELSE IF OpensElement(s[i])
    THEN LET marked == s[i].k = "mopen"
             from == IF marked THEN i + 3 ELSE i + 1
             inner == IF s[i].t \in VoidTags
                      THEN [nodes |-> <<>>, next |-> from]
                      ELSE ParseNodes(s, from)
             after == IF s[i].t \in VoidTags THEN inner.next
                      ELSE IF inner.next > Len(s) THEN inner.next
                      ELSE inner.next + 1
             element == [tag |-> s[i].t, id |-> s[i].i,
                         wig |-> IF marked THEN <<s[i + 1]>> ELSE <<>>,
                         text |-> <<>>, kids |-> inner.nodes]
             rest == ParseNodes(s, after)
         IN  [nodes |-> <<element>> \o rest.nodes, next |-> rest.next]
    ELSE IF s[i].k = "comment"
    THEN LET rest == ParseNodes(s, i + 1)
         IN  [nodes |-> <<CommentNode(s[i].t)>> \o rest.nodes, next |-> rest.next]
    ELSE LET rest == ParseNodes(s, i + 1)
         IN  IF rest.nodes # <<>> /\ IsText(Head(rest.nodes))
             THEN [nodes |-> <<[Head(rest.nodes) EXCEPT !.text = <<s[i]>> \o @]>>
                             \o Tail(rest.nodes),
                   next |-> rest.next]
             ELSE [nodes |-> <<TextNode(s[i])>> \o rest.nodes, next |-> rest.next]

\* cheerio.load(html): the parsed document
Load(html) == ParseNodes(html, 1).nodes

\* line 52: $('body')[0]; the parser puts markup that names no body into one
Body(html) ==
    LET doc == Load(html)
        found == SelectByTag(doc, "body")
    IN  IF Len(found) > 0 THEN NodeAt(doc, found[1])
        ELSE El("body", "", doc)

Space == Txt(" ")
PaddedHello == Txt(" Hello ")

RECURSIVE TrimStart(_)
\* the text without the white space atoms it starts with
TrimStart(text) ==
    IF text = <<>> THEN <<>>
    ELSE IF Head(text) = Space THEN TrimStart(Tail(text))
    ELSE text

\* an atom without the white space it starts with, or ends with
TrimLeftAtom(a) ==
    CASE a = Txt(" Hello ") -> Txt("Hello ")
      [] a = Txt(" Hello") -> Txt("Hello")
      [] OTHER -> a

TrimRightAtom(a) ==
    CASE a = Txt(" Hello ") -> Txt(" Hello")
      [] a = Txt("Hello ") -> Txt("Hello")
      [] OTHER -> a

\* String.prototype.trim
Trim(text) ==
    LET t1 == TrimStart(text)
        t2 == IF t1 = <<>> THEN <<>> ELSE <<TrimLeftAtom(Head(t1))>> \o Tail(t1)
        t3 == Reverse(TrimStart(Reverse(t2)))
    IN  IF t3 = <<>> THEN <<>> ELSE [t3 EXCEPT ![Len(t3)] = TrimRightAtom(@)]

\* the string a text or skipped node is converted to
JString(text) == [kind |-> "string", text |-> text]

\* element.type: a script or style element is not of type 'tag'
ElementType(node) ==
    IF IsText(node) THEN "text"
    ELSE IF IsComment(node) THEN "comment"
    ELSE IF node.tag \in {"script", "style"} THEN node.tag
    ELSE "tag"

\* element.attribs, in the order the attributes were written
Attributes(node) ==
    (IF node.id # "" THEN <<[name |-> "id", value |-> <<Txt(node.id)>>]>> ELSE <<>>)
    \o (IF node.wig # <<>> THEN <<[name |-> "wig-id", value |-> node.wig]>> ELSE <<>>)

CollapseNever(node) == node

\* lines 124-127
Collapse(node) ==
    IF Len(node.children) = 1 /\ node.children[1].kind = "string"
    THEN [node EXCEPT !.hasTextContent = TRUE,
                      !.textContent = node.children[1].text,
                      !.children = <<>>]
    ELSE node

\* a comment is not counted
CountOfKept(type, count) == IF type = "comment" THEN count ELSE count + 1

\* line 79: this.nodeCount++, whatever the node is
CountOf(type, count) == count + 1

RECURSIVE ElementToJson(_, _)
RECURSIVE ChildrenToJson(_, _, _)
\* lines 78-133: the converted node and the node counter after it
ElementToJson(element, count) ==
    LET type == ElementType(element)
        counted == CountOf(type, count)
    IN  IF type = "text"
        THEN [json |-> JString(Trim(element.text)), count |-> counted]
        ELSE IF type = "comment"
        THEN [json |-> JString(<<>>), count |-> counted]
        ELSE IF type = "tag"
        THEN LET r == ChildrenToJson(element.kids, <<>>, counted)
             IN  [json |-> Collapse([kind |-> "node", tagName |-> element.tag,
                                     attributes |-> Attributes(element),
                                     children |-> r.children,
                                     hasTextContent |-> FALSE,
                                     textContent |-> <<>>]),
                  count |-> r.count]
        ELSE [json |-> JString(<<>>), count |-> counted]

\* lines 108-121: the forEach over element.children
ChildrenToJson(kids, children, count) ==
    IF kids = <<>> THEN [children |-> children, count |-> count]
    ELSE LET r == ElementToJson(Head(kids), count)
             keep == IF r.json.kind = "string" THEN Trim(r.json.text) # <<>>
                     ELSE TRUE
         IN  ChildrenToJson(Tail(kids),
                            IF keep THEN Append(children, r.json) ELSE children,
                            r.count)

\* SELECT * FROM reconstructed_html ORDER BY created_at DESC LIMIT 1
GetLatestReconstructedHtml == reconstructed_html[Len(reconstructed_html)]

\* lines 31-54: fetch, parse, reset the counter, convert
JConvert ==
    /\ jpc = "ready"
    /\ IF reconstructed_html = <<>>
       THEN /\ jpc' = "failed"
            /\ jResult' = [kind |-> "error",
                           message |-> "No reconstructed HTML found in database"]
            /\ UNCHANGED <<nodeCount, json>>
       ELSE LET r == ElementToJson(Body(GetLatestReconstructedHtml.html_content), 0)
            IN  /\ jpc' = "saving"
                /\ nodeCount' = r.count
                /\ json' = r.json
                /\ UNCHANGED jResult
    /\ UNCHANGED html_json
    /\ UNCHANGED <<storeVars, reconVars, widgetVars, compVars, styleVars, aiVars>>
    /\ UNCHANGED <<pipeVars, callVars>>

\* lines 56-71: save and return
JSave ==
    /\ jpc = "saving"
    /\ html_json' = Insert(html_json, [json_content |-> json,
                                       total_nodes |-> nodeCount])
    /\ jResult' = [kind |-> "ok", json |-> json, totalNodes |-> nodeCount,
                   dbId |-> Len(html_json) + 1]
    /\ jpc' = "done"
    /\ UNCHANGED <<nodeCount, json>>
    /\ UNCHANGED <<storeVars, reconVars, widgetVars, compVars, styleVars, aiVars>>
    /\ UNCHANGED <<pipeVars, callVars>>

MaxJsonDocNodes == 3

JsonLeaves ==
    {TextNode(Txt("Hello")), TextNode(Space), TextNode(PaddedHello), CommentNode("c")}

JsonTags == {"p", "div", "script"}

RECURSIVE JsonForests(_)
\* the forests of exactly n nodes; no two text nodes are adjacent
JsonForests(n) ==
    IF n = 0 THEN {<<>>}
    ELSE LET trees(k) ==
                 (IF k = 1 THEN JsonLeaves ELSE {})
                 \cup {El(t, "", f) : t \in JsonTags, f \in JsonForests(k - 1)}
             follow(t, k) ==
                 {g \in JsonForests(n - k) :
                     ~(IsText(t) /\ g # <<>> /\ IsText(g[1]))}
         IN  UNION {UNION {{<<t>> \o f : f \in follow(t, k)} : t \in trees(k)} :
                    k \in 1..n}

JsonDocs == UNION {JsonForests(m) : m \in 0..MaxJsonDocNodes}

\* <body><p>Hello</p></body>
HelloDoc == <<El("p", "", <<TextNode(Txt("Hello"))>>)>>

InitJson ==
    /\ components = <<>> /\ placeholder_html = <<>> /\ widgets = <<>>
    /\ optimized_components = <<>>
    /\ reconstructed_html \in
          {<<>>} \cup {<<[html_content |-> Serialize(d), total_components |-> 0,
                         total_widgets |-> 0]>> : d \in JsonDocs}
    /\ html_json = <<>> /\ jpc = "ready" /\ nodeCount = 0 /\ json = JString(<<>>)
    /\ jResult = NoResult
    /\ ReconIdle /\ WidgetIdle /\ CompIdle /\ StyleIdle /\ AiIdle
    /\ PipeIdle /\ CallsIdle

NextJson == JConvert \/ JSave

SpecJson == InitJson /\ [][NextJson]_vars


-----------------------------------------------------------------------------
(* Tree serializer: properties                                             *)

\* the document convertToJson read
ConvertedBody == Body(GetLatestReconstructedHtml.html_content)

\* the children of an element that convert to something non-empty
KeptKids(element) ==
    SelectSeq(element.kids,
              LAMBDA k : \/ IsText(k) /\ Trim(k.text) # <<>>
                         \/ ElementType(k) = "tag")

RECURSIVE Converts(_, _)
\* node is what the claimed rule makes of the element
Converts(node, element) ==
    LET kept == KeptKids(element)
    IN  /\ node.kind = "node"
        /\ node.tagName = element.tag
        /\ IF Len(kept) = 1 /\ IsText(kept[1])
           THEN /\ node.hasTextContent
                /\ node.textContent = Trim(kept[1].text)
                /\ node.children = <<>>
           ELSE /\ ~node.hasTextContent
                /\ Len(node.children) = Len(kept)
                /\ \A j \in 1..Len(kept) :
                       IF IsText(kept[j])
                       THEN node.children[j] = JString(Trim(kept[j].text))
                       ELSE Converts(node.children[j], kept[j])

\* {tagName: "p", attributes: {}, children: [], textContent: "Hello"}
HelloNode ==
    [kind |-> "node", tagName |-> "p", attributes |-> <<>>, children |-> <<>>,
     hasTextContent |-> TRUE, textContent |-> <<Txt("Hello")>>]

\* C12: an element whose non-empty converted children are exactly one string
\* is returned with textContent set to that string and no children; every
\* other element has no textContent; for <body><p>Hello</p></body> the only
\* child of the body node is the p node with textContent "Hello".
C12_Collapsing ==
    jpc = "done" =>
        /\ Converts(jResult.json, ConvertedBody)
        /\ ConvertedBody.kids = HelloDoc =>
               /\ jResult.json.tagName = "body"
               /\ jResult.json.children = <<HelloNode>>

C12_Witness ==
    /\ jpc = "done"
    /\ ConvertedBody.kids = HelloDoc
    /\ html_json = <<[json_content |-> jResult.json, total_nodes |-> 3]>>

RECURSIVE Visited(_)
RECURSIVE VisitedAll(_)
\* the nodes the traversal comes to: a node, and below an element of type
\* tag its children
Visited(element) ==
    IF ElementType(element) = "tag" THEN 1 + VisitedAll(element.kids) ELSE 1

VisitedAll(kids) ==
    IF kids = <<>> THEN 0 ELSE Visited(Head(kids)) + VisitedAll(Tail(kids))

RECURSIVE TreeSize(_)
RECURSIVE TreeSizeAll(_)
\* the element and string nodes of a returned tree
TreeSize(node) ==
    IF node.kind = "string" THEN 1
    ELSE 1 + (IF node.hasTextContent THEN 1 ELSE 0) + TreeSizeAll(node.children)

TreeSizeAll(children) ==
    IF children = <<>> THEN 0
    ELSE TreeSize(Head(children)) + TreeSizeAll(Tail(children))

\* C13: totalNodes of a convertToJson call is the number of nodes its
\* traversal visited, elements, text nodes and comments counted once each
\* from a counter reset at the start; it is at least the number of element
\* and string nodes of the returned tree, and 3 for <body><p>Hello</p></body>.
C13_TotalNodes ==
    jpc = "done" =>
        /\ jResult.totalNodes = Visited(ConvertedBody)
        /\ jResult.totalNodes >= TreeSize(jResult.json)
        /\ html_json[Len(html_json)].total_nodes = jResult.totalNodes
        /\ ConvertedBody.kids = HelloDoc => jResult.totalNodes = 3

C13_Witness ==
    /\ jpc = "done"
    /\ jResult.totalNodes = 4
    /\ TreeSize(jResult.json) = 2
    /\ \E j \in 1..Len(ConvertedBody.kids) : IsComment(ConvertedBody.kids[j])


-----------------------------------------------------------------------------
(* Reconstruction: order, mismatches, missing rows                         *)

WidgetTokensIn(s) == {s[j] : j \in {m \in 1..Len(s) : s[m].k = "wtok"}}

\* the step applies a component whose token the local string holds
InsertsComponent ==
    /\ rpc = "components" /\ rComps # <<>>
    /\ HasWigId(Head(rComps).optimized_html)
    /\ Includes(reconstructedHtml, WigIdOf(Head(rComps).optimized_html))

\* C14: every component substitution comes before the first widget
\* substitution: a component is substituted only while no widget has been,
\* a widget only when no component is left to apply; the widget tokens of an
\* inserted component's markup are in the string right after the insertion,
\* and the widget pass then substitutes a stored widget whose token the
\* string holds.
C14_ComponentsBeforeWidgets ==
    [][/\ (componentsReplaced' # componentsReplaced \/ InsertsComponent) =>
              /\ rpc = "components" /\ widgetsReplaced = 0 /\ rWidgets = <<>>
              /\ widgetsReplaced' = 0
       /\ (widgetsReplaced' # widgetsReplaced) =>
              /\ rpc = "widgets" /\ rComps = <<>>
              /\ componentsReplaced' = componentsReplaced
       /\ (rpc = "widgets" /\ rpc' = "widgets") =>
              (rComps = <<>> /\ componentsReplaced' = componentsReplaced)
       /\ InsertsComponent =>
              /\ componentsReplaced' = componentsReplaced + 1
              /\ WidgetTokensIn(Head(rComps).optimized_html)
                     \subseteq WidgetTokensIn(reconstructedHtml')
       /\ (/\ rpc = "widgets" /\ rWidgets # <<>>
           /\ Includes(reconstructedHtml, Head(rWidgets).widget_key)) =>
              /\ widgetsReplaced' > widgetsReplaced
              /\ widgetsReplaced' - widgetsReplaced =
                     Occurrences(reconstructedHtml, Head(rWidgets).widget_key)
      ]_vars

C14_Witness ==
    /\ rpc = "done"
    /\ rResult.totalComponents > 0 /\ rResult.totalWidgets > 0
    /\ ~Includes(StoredTemplate, W1)
    /\ \E j \in MarkedRows : Includes(optimized_components[j].optimized_html, W1)
    /\ ~Includes(rResult.reconstructedHtml, W1)


\* the component the step is about to apply is a mismatch: it has no markup,
\* or no marker token, or its token is not in the string
SkipsComponent ==
    /\ rpc = "components" /\ rComps # <<>>
    /\ LET h == Head(rComps).optimized_html
       IN  \/ h = <<>>
           \/ ~HasWigId(h)
           \/ ~Includes(reconstructedHtml, WigIdOf(h))

\* C15: with a template stored, reconstruct never fails and cannot stop
\* before it is done; it persists exactly one snapshot; a component with no
\* marker token, with empty markup or with a token the template does not
\* hold changes neither the string nor the count; a template token no stored
\* component carries is still in the output.
C15_MismatchesNotFatal ==
    /\ [](placeholder_html # <<>> =>
             /\ rpc # "failed"
             /\ rResult.kind # "error"
             /\ rpc # "done" => ENABLED NextRecon
             /\ Len(reconstructed_html) = (IF rpc = "done" THEN 1 ELSE 0)
             /\ rpc = "done" =>
                    /\ rResult.kind = "ok"
                    /\ reconstructed_html[1].html_content = rResult.reconstructedHtml
                    /\ \A t \in ComponentTokens(StoredTemplate) \ StoredMarkerTokens :
                           Includes(rResult.reconstructedHtml, t))
    /\ [][SkipsComponent =>
              /\ reconstructedHtml' = reconstructedHtml
              /\ componentsReplaced' = componentsReplaced
              /\ rComps' = Tail(rComps)
              /\ rpc' = "components"]_vars

C15_Witness ==
    /\ rpc = "done" /\ rResult.kind = "ok"
    /\ Len(optimized_components) = 2
    /\ \E j \in 1..2 : ~HasWigId(optimized_components[j].optimized_html)
    /\ StoredMarkerTokens = {T2}
    /\ ComponentTokens(StoredTemplate) = {T1}
    /\ rResult.totalComponents = 0
    /\ Len(reconstructed_html) = 1


\* reconstruct and convertToJson called against the same store
InitStages ==
    /\ components = <<>>
    /\ placeholder_html \in
          {<<>>, <<[html_content |-> ReadmeTemplate, total_placeholders |-> 1]>>}
    /\ optimized_components \in {<<>>, OptimizedRows(<<ReadmeComponent>>)}
    /\ widgets \in {<<>>, <<ReadmeWidget>>}
    /\ reconstructed_html \in
          {<<>>, <<[html_content |-> Serialize(HelloDoc), total_components |-> 0,
                    total_widgets |-> 0]>>}
    /\ html_json = <<>> /\ jpc = "ready" /\ nodeCount = 0 /\ json = JString(<<>>)
    /\ jResult = NoResult
    /\ ReconIdle /\ WidgetIdle /\ CompIdle /\ StyleIdle /\ AiIdle
    /\ PipeIdle /\ CallsIdle

NextStages == NextRecon \/ NextJson

SpecStages == InitStages /\ [][NextStages]_vars

\* C16: reconstruct with no stored template and convertToJson with no stored
\* reconstructed document fail with the error they raise, the failing step
\* writes nothing to the store, and a failed call takes no further step.
C16_MissingRowFatal ==
    /\ [](/\ placeholder_html = <<>> => rpc \in {"idle", "failed"}
          /\ rpc = "failed" =>
                 /\ placeholder_html = <<>>
                 /\ rResult = [kind |-> "error",
                               message |-> "No placeholder HTML found in database"]
          /\ jpc = "failed" =>
                 /\ html_json = <<>>
                 /\ jResult = [kind |-> "error",
                               message |-> "No reconstructed HTML found in database"])
    /\ [][/\ (rpc = "idle" /\ rpc' # "idle" /\ placeholder_html = <<>>) =>
                 (rpc' = "failed" /\ UNCHANGED <<storeVars, html_json>>)
          /\ (jpc = "ready" /\ jpc' # "ready" /\ reconstructed_html = <<>>) =>
                 (jpc' = "failed" /\ UNCHANGED <<storeVars, html_json>>)
          /\ rpc = "failed" =>
                 UNCHANGED <<reconVars, reconstructed_html>>
          /\ jpc = "failed" =>
                 UNCHANGED <<jsonVars>>
         ]_vars

C16_Witness ==
    /\ rpc = "failed" /\ jpc = "failed"
    /\ reconstructed_html = <<>> /\ html_json = <<>>
    /\ optimized_components # <<>> /\ widgets # <<>>

-----------------------------------------------------------------------------
(* AIService.optimizeAllComponents                                         *)
(* src/unnamed/part_002, lines 25-102.  The shrink call is a request to a  *)
(* remote service: it fails, or answers with some markup.  The line counts *)
(* and the reduction the code derives from the two strings go into the row *)
(* and the result and decide nothing.                                      *)

\* what the shrink service may answer for a component's markup
ShrinkAnswers(originalHtml) == {originalHtml, <<Txt("X")>>, <<>>}

\* the rows of getAllComponents, each with its id
ComponentsWithId ==
    [j \in 1..Len(GetAllComponents) |->
        [id |-> j, placeholder_id |-> GetAllComponents[j].placeholder_id,
         html_content |-> GetAllComponents[j].html_content]]

\* lines 26-36
AStart ==
    /\ apc = "ready"
    /\ IF Len(ComponentsWithId) = 0
       THEN /\ apc' = "done"
            /\ aResult' = [kind |-> "ok", results |-> <<>>]
            /\ UNCHANGED <<aComponents, aResults>>
       ELSE /\ apc' = "loop"
            /\ aComponents' = ComponentsWithId
            /\ aResults' = <<>>
            /\ UNCHANGED aResult
    /\ UNCHANGED aLog
    /\ UNCHANGED <<storeVars, reconVars, widgetVars, compVars, styleVars, jsonVars>>
    /\ UNCHANGED <<pipeVars, callVars>>

\* lines 38-90: the shrink call answers and the snapshot is written
AOptimize ==
    /\ apc = "loop" /\ aComponents # <<>>
    /\ LET component == Head(aComponents)
       IN  \E optimizedHtml \in ShrinkAnswers(component.html_content) :
               /\ optimized_components' =
                      Insert(optimized_components,
                             [id |-> Len(optimized_components) + 1,
                              component_id |-> component.id,
                              original_html |-> component.html_content,
                              optimized_html |-> optimizedHtml])
               /\ aResults' = Append(aResults,
                                     [componentId |-> component.id,
                                      placeholderId |-> component.placeholder_id,
                                      originalHtml |-> component.html_content,
                                      optimizedHtml |-> optimizedHtml])
               /\ aLog' = Append(aLog, [id |-> component.id, outcome |-> "ok"])
    /\ aComponents' = Tail(aComponents)
    /\ UNCHANGED <<apc, aResult>>
    /\ UNCHANGED <<components, placeholder_html, widgets, reconstructed_html>>
    /\ UNCHANGED <<reconVars, widgetVars, compVars, styleVars, jsonVars>>
    /\ UNCHANGED <<pipeVars, callVars>>

\* lines 45 and 91-93: callClaudeAPI throws
AShrinkFails ==
    /\ apc = "loop" /\ aComponents # <<>>
    /\ aLog' = Append(aLog, [id |-> Head(aComponents).id, outcome |-> "shrink failed"])
    /\ aComponents' = Tail(aComponents)
    /\ UNCHANGED <<apc, aResults, aResult>>
    /\ UNCHANGED <<storeVars, reconVars, widgetVars, compVars, styleVars, jsonVars>>
    /\ UNCHANGED <<pipeVars, callVars>>

\* the failed write ends the call
ASaveFailsAborts ==
    /\ apc = "loop" /\ aComponents # <<>>
    /\ aLog' = Append(aLog, [id |-> Head(aComponents).id, outcome |-> "save failed"])
    /\ apc' = "failed"
    /\ aResult' = [kind |-> "error"]
    /\ UNCHANGED <<aComponents, aResults>>
    /\ UNCHANGED <<storeVars, reconVars, widgetVars, compVars, styleVars, jsonVars>>
    /\ UNCHANGED <<pipeVars, callVars>>

\* lines 71-78 and 91-93: saveOptimizedComponent throws
ASaveFails ==
    /\ apc = "loop" /\ aComponents # <<>>
    /\ aLog' = Append(aLog, [id |-> Head(aComponents).id, outcome |-> "save failed"])
    /\ aComponents' = Tail(aComponents)
    /\ UNCHANGED <<apc, aResults, aResult>>
    /\ UNCHANGED <<storeVars, reconVars, widgetVars, compVars, styleVars, jsonVars>>
    /\ UNCHANGED <<pipeVars, callVars>>

\* lines 96-97
AReturn ==
    /\ apc = "loop" /\ aComponents = <<>>
    /\ apc' = "done"
    /\ aResult' = [kind |-> "ok", results |-> aResults]
    /\ UNCHANGED <<aComponents, aResults, aLog>>
    /\ UNCHANGED <<storeVars, reconVars, widgetVars, compVars, styleVars, jsonVars>>
    /\ UNCHANGED <<pipeVars, callVars>>

MaxStoredComponents == 3

\* rows as extractComponents leaves them: a captured section, a target that
\* was not found
StoredComponent(j, found) ==
    [placeholder_id |-> PlaceholderId(j), original_id |-> "a",
     type |-> IF found THEN "section" ELSE "target-id",
     html_content |-> IF found
                      THEN Marked("section", CTok(PlaceholderId(j)), <<W1>>)
                      ELSE NotFoundHtml("pinnedTopLeft", PlaceholderId(j))]

InitOptimize ==
    /\ \E n \in 0..MaxStoredComponents : \E f \in [1..n -> BOOLEAN] :
           components = [j \in 1..n |-> StoredComponent(j, f[j])]
    /\ placeholder_html = <<>> /\ widgets = <<>> /\ optimized_components = <<>>
    /\ reconstructed_html = <<>>
    /\ apc = "ready" /\ aComponents = <<>> /\ aResults = <<>> /\ aLog = <<>>
    /\ aResult = NoResult
    /\ ReconIdle /\ WidgetIdle /\ CompIdle /\ StyleIdle /\ JsonIdle
    /\ PipeIdle /\ CallsIdle

NextOptimize == AStart \/ AOptimize \/ AShrinkFails \/ ASaveFails \/ AReturn

SpecOptimize == InitOptimize /\ [][NextOptimize]_vars

\* the positions of the log where shrink and write both succeeded
Succeeded == SelectSeq(aLog, LAMBDA e : e.outcome = "ok")

\* C17: a failed shrink call or a failed snapshot write does not end the
\* batch: the call goes on to the next component, every component is
\* attempted once in id order, the call returns normally, and the results
\* are exactly the components whose shrink and write both succeeded, in id
\* order, each with its snapshot in the store.
C17_BatchContinues ==
    /\ [](/\ apc # "failed"
          /\ apc = "done" =>
                 /\ aResult.kind = "ok"
                 /\ [j \in 1..Len(aLog) |-> aLog[j].id]
                        = [j \in 1..Len(components) |-> j]
                 /\ [j \in 1..Len(aResult.results) |-> aResult.results[j].componentId]
                        = [j \in 1..Len(Succeeded) |-> Succeeded[j].id]
                 /\ Len(optimized_components) = Len(aResult.results)
                 /\ \A j \in 1..Len(aResult.results) :
                        /\ optimized_components[j].component_id
                               = aResult.results[j].componentId
                        /\ optimized_components[j].optimized_html
                               = aResult.results[j].optimizedHtml
                        /\ aResult.results[j].originalHtml
                               = components[aResult.results[j].componentId].html_content)
    /\ [][(apc = "loop" /\ aComponents # <<>>) =>
              /\ apc' = "loop"
              /\ aComponents' = Tail(aComponents)
              /\ Len(aLog') = Len(aLog) + 1]_vars

C17_Witness ==
    /\ apc = "done"
    /\ Len(aLog) = 3
    /\ aLog[1].outcome = "shrink failed"
    /\ aLog[2].outcome = "save failed"
    /\ aLog[3].outcome = "ok"
    /\ Len(aResult.results) = 1


-----------------------------------------------------------------------------
(* Widget extraction: failures                                             *)

\* C18: an error of the traversal or of a widget write ends extractWidgets:
\* the call takes no further step and writes no further widget, and what
\* reaches the caller is one error that wraps the cause in the stage's
\* message, with no widgets map and no modifiedHtml.
C18_ExtractionAborts ==
    /\ [](wpc = "failed" =>
             /\ wResult.kind = "error"
             /\ DOMAIN wResult = {"kind", "message"}
             /\ wResult.message[1] = "Failed to extract widgets: "
             /\ Len(wResult.message) = 2)
    /\ [][/\ wpc = "failed" => UNCHANGED <<widgetVars, widgets>>
          /\ (wpc' = "failed" /\ wpc # "failed") =>
                 /\ wpc \in {"ready", "saving"}
                 /\ UNCHANGED storeVars
          /\ wpc' = "done" => (wpc = "done" \/ (wpc = "saving" /\ wQueue = <<>>))
          /\ (wpc = "saving" /\ wQueue # <<>> /\ wQueue' # wQueue) =>
                 widgets' = Append(widgets, Head(wQueue))
         ]_vars

C18_Witness ==
    /\ wpc = "failed"
    /\ wResult = WrappedError("Failed to save widget")
    /\ Len(widgets) = 1
    /\ Len(wQueue) = 1


-----------------------------------------------------------------------------
(* Claims about the order of the component pass.                           *)

\* the last k elements of a sequence
Suffix(s, k) == SubSeq(s, Len(s) - k + 1, Len(s))

\* C19 as stated: the components still to apply are the stored rows in the
\* order of their insertion, oldest first.
C19_AsClaimed ==
    rpc = "components" => rComps = Suffix(optimized_components, Len(rComps))

\* C19: reconstruct applies the stored shrunk components newest first: the
\* components still to apply are the end of the stored rows read backwards,
\* so with k components left the one applied next is the k-th persisted, and
\* each step of the loop applies exactly that one.
C19_NewestFirst ==
    /\ [](rpc = "components" =>
             /\ Len(rComps) <= Len(optimized_components)
             /\ rComps = Suffix(Reverse(optimized_components), Len(rComps)))
    /\ [][(rpc = "components" /\ rComps # <<>>) =>
             LET r == ApplyComponent(reconstructedHtml, componentsReplaced,
                                     optimized_components[Len(rComps)])
             IN  /\ reconstructedHtml' = r.html
                 /\ componentsReplaced' = r.replaced
                 /\ Len(rComps') = Len(rComps) - 1
                 /\ UNCHANGED optimized_components
          ]_vars

C19_Witness ==
    /\ rpc = "components"
    /\ Len(optimized_components) = 2
    /\ rComps = <<optimized_components[1]>>
    /\ componentsReplaced = 1
    /\ optimized_components[1].optimized_html # optimized_components[2].optimized_html
    /\ HasWigId(optimized_components[2].optimized_html)


RECURSIVE ComponentPass(_, _, _)
\* lines 35-62: the string and the count once the listed components have
\* been applied in turn
ComponentPass(html, replaced, comps) ==
    IF comps = <<>> THEN [html |-> html, replaced |-> replaced]
    ELSE LET r == ApplyComponent(html, replaced, Head(comps))
         IN  ComponentPass(r.html, r.replaced, Tail(comps))

\* the orders in which n components can be applied
ApplicationOrders(n) ==
    {f \in [1..n -> 1..n] : \A a, b \in 1..n : f[a] = f[b] => a = b}

\* every stored component carries a marker token and no two carry the same
DistinctTokens ==
    /\ MarkedRows = 1..Len(optimized_components)
    /\ \A a, b \in MarkedRows :
          WigIdOf(optimized_components[a].optimized_html)
              = WigIdOf(optimized_components[b].optimized_html) => a = b

\* C20 as stated: for a stored template and stored components with pairwise
\* distinct tokens, every order of applying the components gives the same
\* string and the same count of components substituted.
C20_AsClaimed ==
    (placeholder_html # <<>> /\ DistinctTokens) =>
        \A f, g \in ApplicationOrders(Len(optimized_components)) :
            ComponentPass(StoredTemplate, 0,
                          [j \in 1..Len(optimized_components) |-> optimized_components[f[j]]])
          = ComponentPass(StoredTemplate, 0,
                          [j \in 1..Len(optimized_components) |-> optimized_components[g[j]]])

\* the failing case: the template holds the section's token only, the
\* section's markup holds the target's token; section first substitutes both,
\* target first substitutes the section alone and leaves the target's token
C20_NestedTokenOrderMatters ==
    LET template == <<T2>>
        target   == [id |-> 1, component_id |-> 1,
                     optimized_html |-> Marked("section", T1, <<W1>>)]
        section  == [id |-> 2, component_id |-> 2,
                     optimized_html |-> SectionAroundTarget]
        sectionFirst == ComponentPass(template, 0, <<section, target>>)
        targetFirst  == ComponentPass(template, 0, <<target, section>>)
    IN  /\ sectionFirst.replaced = 2
        /\ ~Includes(sectionFirst.html, T1) \/ HoldsMarker(sectionFirst.html, T1)
        /\ targetFirst.replaced = 1
        /\ targetFirst.html = SectionAroundTarget


-----------------------------------------------------------------------------
(* Further claims about widget extraction.                                 *)

RECURSIVE SubstitutedAll(_, _)
\* every token of the rows replaced by its fragment, taken literally
SubstitutedAll(s, rows) ==
    IF rows = <<>> THEN s
    ELSE SubstitutedAll(Substituted(s, Head(rows).widget_key, Head(rows).widget_html),
                        Tail(rows))

\* the traversal has run and its result is at hand
Traversed == wpc \in {"saving", "done"}

\* C21: an extracted element is replaced in place by one text node holding
\* its token and its descendants are not visited: every stored fragment is
\* the markup of the element as it was given, descendants included, and holds
\* no widget token; the tokens of modifiedHtml are those of the elements the
\* walk took, one each; and putting each fragment back where its token stands
\* gives the given document.
C21_ReplacedInPlace ==
    Traversed =>
        LET taken == TakenInPreOrder(wDoc, FALSE)
            map == wResult.widgets
        IN  /\ Len(map) = Len(taken)
            /\ \A j \in 1..Len(map) :
                  /\ map[j].widget_html = OuterHTML(taken[j])
                  /\ WidgetTokens(map[j].widget_html) = <<>>
                  /\ Occurrences(wResult.modifiedHtml, map[j].widget_key) = 1
            /\ Len(WidgetTokens(wResult.modifiedHtml)) = Len(map)
            /\ SubstitutedAll(wResult.modifiedHtml, map) = Serialize(wDoc)

C21_Witness ==
    /\ wpc = "done"
    /\ wResult.totalWidgets = 1
    /\ \E j \in 1..Len(wDoc) :
          /\ ~IsText(wDoc[j]) /\ wDoc[j].tag = "span"
          /\ wDoc[j].kids # <<>>
          /\ ~IsText(wDoc[j].kids[1]) /\ wDoc[j].kids[1].tag = "span"


\* the elements of the given document, in document order
WidgetDocPaths == ElementPaths(wDoc, <<>>)

\* the element has a section ancestor
UnderSection(p) == HasAncestor(wDoc, p, "section")

\* the element qualifies as a widget where it stands
QualifiesAt(p) ==
    /\ NodeAt(wDoc, p).tag \in WIDGET_ELEMENTS
    /\ NodeAt(wDoc, p).tag = "main" => UnderSection(p)

\* the traversal reaches the element: no ancestor of it qualifies
ReachedAt(p) == \A q \in ProperPrefixes(p) : ~QualifiesAt(q)

MainPaths(P(_)) ==
    SelectSeq(WidgetDocPaths, LAMBDA p : NodeAt(wDoc, p).tag = "main" /\ P(p))

\* the stored fragments that are main elements
MainFragments ==
    SelectSeq(wResult.widgets, LAMBDA w : w.widget_html[1].t = "main")

\* the main elements left in modifiedHtml
MainsLeft ==
    SelectSeq(wResult.modifiedHtml, LAMBDA a : a.k = "open" /\ a.t = "main")

\* C22 as stated: the main elements extracted are those with a section
\* ancestor, and every main element without one stays in modifiedHtml.
C22_AsClaimed ==
    Traversed =>
        /\ Len(MainFragments) = Len(MainPaths(UnderSection))
        /\ Len(MainsLeft) = Len(MainPaths(LAMBDA p : ~UnderSection(p)))

\* C22: of the main elements the traversal reaches, those with a section
\* ancestor are extracted and the others stay in modifiedHtml with no token
\* of their own, their children traversed like those of any element that is
\* no widget: the fragments are the markup of the reached qualifying
\* elements in document order; a main element below an extracted element
\* is not visited.
C22_ReachedMain ==
    Traversed =>
        LET extracted == SelectSeq(WidgetDocPaths,
                                   LAMBDA p : ReachedAt(p) /\ QualifiesAt(p))
        IN  /\ Len(wResult.widgets) = Len(extracted)
            /\ \A j \in 1..Len(extracted) :
                  wResult.widgets[j].widget_html = OuterHTML(NodeAt(wDoc, extracted[j]))
            /\ Len(WidgetTokens(wResult.modifiedHtml)) = Len(extracted)
            /\ Len(MainFragments)
                  = Len(MainPaths(LAMBDA p : ReachedAt(p) /\ UnderSection(p)))
            /\ Len(MainsLeft)
                  = Len(MainPaths(LAMBDA p : ReachedAt(p) /\ ~UnderSection(p)))

C22_Witness ==
    /\ wpc = "done"
    /\ wResult.totalWidgets = 1
    /\ Len(MainsLeft) = 1
    /\ Len(wDoc) = 1 /\ wDoc[1].tag = "main"
    /\ wDoc[1].kids # <<>> /\ ~IsText(wDoc[1].kids[1]) /\ wDoc[1].kids[1].tag = "span"


-----------------------------------------------------------------------------
(* Further claims about component extraction.                              *)

\* the positions in $('section') of the sections without a section ancestor
TopSections ==
    {j \in 1..Len(sectionElements) :
        ~HasAncestor(cSnap, sectionElements[j], "section")}

\* the resolved id of the j-th section: its id attribute, or section_j
ResolvedIdOf(j) ==
    LET e == NodeAt(cSnap, sectionElements[j])
    IN  IF e.id # "" THEN e.id ELSE SectionIdStrings[j]

\* the top-level sections that are the first with their resolved id
FirstSections ==
    {j \in TopSections :
        \A k \in TopSections : k < j => ResolvedIdOf(k) # ResolvedIdOf(j)}

LaterSections == TopSections \ FirstSections

SectionFragments ==
    SelectSeq(extractedComponents, LAMBDA c : c.type = "section")

\* the j-th smallest element of a set of numbers
RECURSIVE Ascending(_)
Ascending(S) ==
    IF S = {} THEN <<>>
    ELSE LET least == CHOOSE a \in S : \A b \in S : a <= b
         IN  <<least>> \o Ascending(S \ {least})

\* one Fragment for each first section, in document order, under its
\* resolved id and the next token; none for any other section
FirstSectionsExtracted ==
    LET firsts == Ascending(FirstSections)
    IN  /\ Len(SectionFragments) = Len(firsts)
        /\ \A n \in 1..Len(firsts) :
              /\ SectionFragments[n].originalId = ResolvedIdOf(firsts[n])
              /\ SectionFragments[n].found
              /\ SectionFragments[n].placeholderId = PlaceholderId(Len(targetIds) + n)

\* the cleanup removes the element or an ancestor of it
CleanedAway(forest, path) ==
    \E m \in 1..Len(path) : Cleaned(NodeAt(forest, SubSeq(path, 1, m)))

\* the markup of an element the extraction left alone, once the cleanup has
\* been through its content
LeftMarkup(path) == InnerHTML(Cleanup(<<NodeAt(cSnap, path)>>))

\* C23 as stated: every later section with a resolved id already seen stays
\* in the cleaned template.
C23_AsClaimed ==
    cpc = "done" =>
        /\ FirstSectionsExtracted
        /\ \A j \in LaterSections :
              IsInfix(LeftMarkup(sectionElements[j]), cResult.cleanedHtml)

\* C23: the resolved id of a section is its id attribute or, without one,
\* section_{i+1} for its index i in the section list of the section phase;
\* of the top-level sections that share a resolved id the first is extracted
\* and each later one gets no token and no Fragment and is left in the
\* document, so that it is in the cleaned template unless the cleanup
\* removes it or an ancestor of it.
C23_FirstOccurrenceWins ==
    cpc = "done" =>
        /\ FirstSectionsExtracted
        /\ \A j \in LaterSections :
              LET p == sectionElements[j]
              IN  ~CleanedAway(cSnap, p) =>
                      IsInfix(LeftMarkup(p), cResult.cleanedHtml)

C23_Witness ==
    /\ cpc = "done"
    /\ cInput = <<El("section", "a", <<>>), El("section", "a", <<TextNode(Txt("X"))>>)>>
    /\ Len(SectionFragments) = 1
    /\ LaterSections = {2}


-----------------------------------------------------------------------------
(* Claims about flattening the style document.                             *)

RECURSIVE AllNodes(_)
\* every object of the style document, depth first
AllNodes(data) ==
    IF data.kind = "array"
    THEN Concat([j \in 1..Len(data.items) |-> AllNodes(data.items[j])])
    ELSE IF data.kind = "object"
    THEN <<data>> \o Concat([j \in 1..Len(data.children) |->
                                AllNodes(data.children[j])])
    ELSE <<>>

\* the node is a script, or its html holds one
Tainted(node) ==
    \/ node.tag # "" /\ ToLowerCase(node.tag) = "script"
    \/ node.html # "" /\ IncludesScript(node.html)

RECURSIVE VisitedNodes(_)
\* the objects flattenElements gets to, depth first: it does not go below a
\* tainted object that carries a styles object
VisitedNodes(data) ==
    IF data.kind = "array"
    THEN Concat([j \in 1..Len(data.items) |-> VisitedNodes(data.items[j])])
    ELSE IF data.kind = "object"
    THEN IF data.hasStyles /\ Tainted(data) THEN <<data>>
         ELSE <<data>> \o Concat([j \in 1..Len(data.children) |->
                                     VisitedNodes(data.children[j])])
    ELSE <<>>

\* the entries of the listed nodes, indexed from 0 without gap
EntriesOf(nodes) ==
    [j \in 1..Len(nodes) |->
        [tag |-> nodes[j].tag, html |-> nodes[j].html,
         styles |-> nodes[j].styles, jsonIndex |-> j - 1]]

\* C24 as stated: the flattened sequence holds one entry for every object of
\* the style document that carries a styles object and is not script-tainted,
\* a descendant of a dropped object included, depth first, indexed 0..m-1.
C24_AsClaimed ==
    ppc = "done" =>
        LET kept == SelectSeq(AllNodes(pJson),
                              LAMBDA n : n.hasStyles /\ ~Tainted(n))
        IN  /\ FlattenElements(pJson, <<>>) = EntriesOf(kept)
            /\ pResult.stats.totalJsonEntries = Len(kept)

\* what the code does instead: the same of the objects it gets to
C24_VisitedOnly ==
    ppc = "done" =>
        LET kept == SelectSeq(VisitedNodes(pJson),
                              LAMBDA n : n.hasStyles /\ ~Tainted(n))
        IN  /\ FlattenElements(pJson, <<>>) = EntriesOf(kept)
            /\ pResult.stats.totalJsonEntries = Len(kept)

\* C25 as stated: of the objects the traversal gets to, those with a
\* non-empty styles object have an entry and no other has one: an object with
\* no styles object or an empty one has no entry and takes no index.
C25_AsClaimed ==
    ppc = "done" =>
        LET kept == SelectSeq(VisitedNodes(pJson),
                              LAMBDA n : n.hasStyles /\ n.styles # <<>> /\ ~Tainted(n))
        IN  /\ FlattenElements(pJson, <<>>) = EntriesOf(kept)
            /\ pResult.stats.totalJsonEntries = Len(kept)


-----------------------------------------------------------------------------
(* The pipeline requests of src/controllers/mainController.ts: each        *)
(* extractComponents request runs extractWidgets and then                  *)
(* extractComponents on its document, against the one store; a            *)
(* reconstruct request follows.  gcsFiles holds, for the requests to come, *)
(* the styled document each will work on.                                  *)

\* lines 45-48: the request's document goes to extractWidgets
EWidgets ==
    /\ gcsFiles # <<>>
    /\ wpc = "idle" /\ cpc \in {"idle", "done"} /\ rpc = "idle"
    /\ wDoc' = Head(gcsFiles)
    /\ gcsFiles' = Tail(gcsFiles)
    /\ wpc' = "ready"
    /\ wResult' = NoResult
    /\ wQueue' = <<>>
    /\ UNCHANGED <<storeVars, reconVars, compVars, styleVars, jsonVars, aiVars, callVars>>

\* line 49: widgetResult.modifiedHtml goes to extractComponents, which parses it
EComponents ==
    /\ wpc = "done" /\ cpc \in {"idle", "done"}
    /\ wpc' = "idle"
    /\ cInput' = Body(wResult.modifiedHtml).kids
    /\ cpc' = "ready"
    /\ cDom' = <<>> /\ cIdx' = 0 /\ sectionElements' = <<>> /\ cSnap' = <<>>
    /\ processedSections' = {} /\ placeholderCounter' = 0
    /\ extractedComponents' = <<>> /\ cLog' = <<>> /\ cResult' = NoResult
    /\ UNCHANGED <<wDoc, wResult, wQueue>>
    /\ UNCHANGED <<storeVars, reconVars, styleVars, jsonVars, aiVars, pipeVars, callVars>>

\* lines 97-99: the reconstruct request, once the extraction requests are done
EReconstruct ==
    /\ gcsFiles = <<>> /\ wpc = "idle" /\ cpc = "done"
    /\ ReconStart

MaxPipelineDocNodes == 2

PipelineDocLabels == {[tag |-> t, id |-> ""] : t \in {"span", "section"}}

PipelineDocs == ForestsUpTo(MaxPipelineDocNodes, PipelineDocLabels, {Txt("X")})

\* two extraction requests, on documents D1 and D2, against an empty store
InitPipeline ==
    /\ gcsFiles \in {<<d1, d2>> : d1 \in PipelineDocs, d2 \in PipelineDocs}
    /\ StoreEmpty /\ ReconIdle /\ WidgetIdle /\ CompIdle /\ StyleIdle
    /\ JsonIdle /\ AiIdle /\ CallsIdle

NextPipeline ==
    \/ EWidgets \/ WExtract \/ WSave \/ WReturn
    \/ EComponents \/ CStart \/ CTarget \/ CSection \/ CFinish
    \/ EReconstruct \/ ReconLoadWidgets \/ ReconWidget \/ ReconSave

SpecPipeline == InitPipeline /\ [][NextPipeline]_vars

\* C26 as stated: when reconstruct has run after the two extraction passes,
\* its output is the latest template with every widget token replaced by the
\* fragment the second pass captured under that token.
C26_AsClaimed ==
    (rpc = "done" /\ Len(placeholder_html) = 2) =>
        rResult.reconstructedHtml = SubstitutedAll(StoredTemplate, wResult.widgets)

\* the failing case: after <span>X</span> and then <span></span>, the first
\* pass's row comes first in the widgets table, so the output holds
\* <span>X</span> where the second document had <span></span>
C26_StaleFragment ==
    (/\ rpc = "done"
     /\ cInput = <<TextNode(WidgetKey(1))>>
     /\ widgets = <<[widget_key |-> WidgetKey(1),
                     widget_html |-> <<Open("span", ""), Txt("X"), Close("span")>>],
                    [widget_key |-> WidgetKey(1),
                     widget_html |-> <<Open("span", ""), Close("span")>>]>>)
        => /\ IsInfix(<<Open("span", ""), Txt("X"), Close("span")>>,
                      rResult.reconstructedHtml)
           /\ rResult.totalWidgets = 1


-----------------------------------------------------------------------------
(* Claims about repeated rows in the store.                                *)

\* every wig-id attribute of the string holds a token and nothing else
MarkersIntact(s) ==
    \A j \in 1..Len(s) :
        s[j].k = "mopen" =>
            /\ j + 2 <= Len(s)
            /\ s[j + 1].k = "ctok"
            /\ s[j + 2].k = "mend"

\* two stored shrunk components carry the same marker token
RepeatedToken ==
    \E a, b \in MarkedRows :
        /\ a # b
        /\ WigIdOf(optimized_components[a].optimized_html)
              = WigIdOf(optimized_components[b].optimized_html)

\* C27 as stated: whatever rows the store holds for a token, reconstruct
\* counts each token once and inserts no copy of a component inside the
\* wig-id attribute of another.
C27_AsClaimed ==
    (rpc = "done" /\ RepeatedToken) =>
        /\ rResult.totalComponents <= Cardinality(StoredMarkerTokens)
        /\ MarkersIntact(rResult.reconstructedHtml)

\* the failing case: the template {{wigoh-id-001}} and two snapshots of the
\* same section; the second is written into the wig-id attribute of the first
C27_SecondCopyInsideMarker ==
    (/\ rpc = "done"
     /\ StoredTemplate = <<T1>>
     /\ optimized_components = OptimizedRows(<<ReadmeComponent, ReadmeComponent>>)
     /\ widgets = <<>>)
        => /\ rResult.totalComponents = 2
           /\ rResult.reconstructedHtml
                 = <<MOpen("section", "")>> \o ReadmeComponent
                   \o <<MEnd, W1, Close("section")>>


-----------------------------------------------------------------------------
(* Claims about the persisted template.                                    *)

FoundFragments == SelectSeq(extractedComponents, LAMBDA c : c.found)

\* C28 as stated: when extractComponents has returned, the template it
\* persisted holds the token of every found=true Fragment exactly once.
C28_AsClaimed ==
    cpc = "done" =>
        /\ StoredTemplate = cResult.cleanedHtml
        /\ \A j \in 1..Len(FoundFragments) :
              Occurrences(StoredTemplate, CTok(FoundFragments[j].placeholderId)) = 1

\* the failing cases: a section inside a header leaves no token, two
\* elements with one target id leave two
C28_TokenLostOrRepeated ==
    cpc = "done" =>
        /\ cInput = <<El("header", "", <<El("section", "", <<>>)>>)>>
              => /\ Len(FoundFragments) = 1
                 /\ Occurrences(StoredTemplate, CTok(PlaceholderId(4))) = 0
        /\ cInput = <<El("div", "pinnedTopLeft", <<>>), El("div", "pinnedTopLeft", <<>>)>>
              => /\ Len(FoundFragments) = 1
                 /\ Occurrences(StoredTemplate, CTok(PlaceholderId(1))) = 2


-----------------------------------------------------------------------------
(* Claims about failed writes.                                             *)

\* C29 as stated: a call of extractWidgets or extractComponents that a
\* storage write has failed leaves the store as it was before the call,
\* here empty: no widget row, no component row and no template.
C29_AsClaimed ==
    /\ wpc = "failed" => widgets = <<>>
    /\ cpc = "failed" => (components = <<>> /\ placeholder_html = <<>>)

\* what the code keeps: the failed call writes nothing further, no template
\* is written, and the rows written before the failure remain
C29_RowsRemain ==
    /\ [](cpc = "failed" =>
             /\ placeholder_html = <<>>
             /\ Len(components) = Len(extractedComponents))
    /\ [][cpc = "failed" => UNCHANGED <<storeVars, compVars>>]_vars


-----------------------------------------------------------------------------
(* Concurrent convertToJson calls.  htmlToJsonService is one object        *)
(* (src/unnamed/part_001, line 27: private nodeCount); a call gives way to *)
(* other requests at its two awaits, lines 35 and 59.                      *)

\* line 35: await databaseService.getLatestReconstructedHtml()
KFetch(c) ==
    /\ kpc[c] = "idle"
    /\ kpc' = [kpc EXCEPT ![c] = "fetched"]
    /\ kData' = [kData EXCEPT ![c] = IF reconstructed_html = <<>> THEN <<>>
                                    ELSE <<GetLatestReconstructedHtml>>]
    /\ UNCHANGED <<kJson, kArgs, kResult>>
    /\ UNCHANGED <<storeVars, reconVars, widgetVars, compVars, styleVars, jsonVars,
                   aiVars, pipeVars>>

\* lines 37-59: the null test, the reset of the shared counter, the
\* conversion, and the call of saveHtmlJson(json, this.nodeCount)
KConvert(c) ==
    /\ kpc[c] = "fetched"
    /\ IF kData[c] = <<>>
       THEN /\ kpc' = [kpc EXCEPT ![c] = "failed"]
            /\ kResult' = [kResult EXCEPT ![c] =
                              [kind |-> "error",
                               message |-> "No reconstructed HTML found in database"]]
            /\ UNCHANGED <<nodeCount, kJson, kArgs>>
       ELSE LET r == ElementToJson(Body(kData[c][1].html_content), 0)
            IN  /\ kpc' = [kpc EXCEPT ![c] = "saving"]
                /\ nodeCount' = r.count
                /\ kJson' = [kJson EXCEPT ![c] = r.json]
                /\ kArgs' = [kArgs EXCEPT ![c] = r.count]
                /\ UNCHANGED kResult
    /\ UNCHANGED <<kData, html_json, jpc, json, jResult>>
    /\ UNCHANGED <<storeVars, reconVars, widgetVars, compVars, styleVars, aiVars, pipeVars>>

\* line 59: the INSERT of saveHtmlJson, with the arguments it was called with
KSave(c) ==
    /\ kpc[c] = "saving"
    /\ html_json' = Insert(html_json, [json_content |-> kJson[c],
                                       total_nodes |-> kArgs[c]])
    /\ kResult' = [kResult EXCEPT ![c] = [kind |-> "saved",
                                          dbId |-> Len(html_json) + 1]]
    /\ kpc' = [kpc EXCEPT ![c] = "saved"]
    /\ UNCHANGED <<kData, kJson, kArgs, jpc, nodeCount, json, jResult>>
    /\ UNCHANGED <<storeVars, reconVars, widgetVars, compVars, styleVars, aiVars, pipeVars>>

\* lines 66-70: after the await, the result is built; totalNodes reads
\* this.nodeCount again
KReturn(c) ==
    /\ kpc[c] = "saved"
    /\ kResult' = [kResult EXCEPT ![c] = [kind |-> "ok", json |-> kJson[c],
                                          totalNodes |-> nodeCount,
                                          dbId |-> kResult[c].dbId]]
    /\ kpc' = [kpc EXCEPT ![c] = "done"]
    /\ UNCHANGED <<kData, kJson, kArgs>>
    /\ UNCHANGED <<storeVars, reconVars, widgetVars, compVars, styleVars, jsonVars,
                   aiVars, pipeVars>>

\* the store of the README's scenario, with or without an earlier
\* reconstructed document; a reconstruct request and two convertToJson
\* requests are to come
InitShared ==
    /\ components = <<>>
    /\ placeholder_html = <<[html_content |-> ReadmeTemplate, total_placeholders |-> 1]>>
    /\ optimized_components = OptimizedRows(<<ReadmeComponent>>)
    /\ widgets = <<ReadmeWidget>>
    /\ reconstructed_html \in
          {<<>>, <<[html_content |-> Serialize(HelloDoc), total_components |-> 0,
                    total_widgets |-> 0]>>}
    /\ ReconIdle /\ WidgetIdle /\ CompIdle /\ StyleIdle /\ JsonIdle /\ AiIdle
    /\ PipeIdle /\ CallsIdle

NextShared ==
    \/ NextRecon
    \/ \E c \in Callers : KFetch(c) \/ KConvert(c) \/ KSave(c) \/ KReturn(c)

SpecShared == InitShared /\ [][NextShared]_vars

\* the nodes a call's traversal visits in the document it fetched
OwnVisited(c) == Visited(Body(kData[c][1].html_content))

\* C30 as stated: the totalNodes a call returns is the total_nodes it
\* persisted and the number of nodes it visited in its own document.
C30_AsClaimed ==
    \A c \in Callers :
        kpc[c] = "done" =>
            /\ kResult[c].totalNodes = html_json[kResult[c].dbId].total_nodes
            /\ kResult[c].totalNodes = OwnVisited(c)

\* what the code keeps: the row a call persisted holds the count of its own
\* document; the value it returns is the counter as the last conversion of
\* any call left it
C30_PersistedOwnCount ==
    \A c \in Callers :
        /\ kpc[c] \in {"saved", "done"} =>
              html_json[kResult[c].dbId].total_nodes = OwnVisited(c)
        /\ kpc[c] = "done" =>
              \E d \in Callers : kpc[d] \in {"saving", "saved", "done"}
                                 /\ kResult[c].totalNodes = OwnVisited(d)

=============================================================================
